---- MODULE Spec2Model ----
(***************************************************************************)
(* BizBrain: the ingestion pipeline (interface/cli.py), the Registry       *)
(* (processors/document_loader.py), the chunk splitter                     *)
(* (processors/text_chunker.py) and the vector index                       *)
(* (indexers/vector_indexer.py), as a state machine.                       *)
(*                                                                         *)
(* Representation.  A text is a sequence of one-character strings.  A      *)
(* document id "doc_NNN" is the number NNN, a batch id "batch_NNN" the     *)
(* number NNN, a chunk id "{doc}_chunk_{NNN}" the pair <<doc, NNN>>.  A    *)
(* python dict is a function whose DOMAIN is its key set.  Timestamps      *)
(* (last_update, last_processed, created_at) are left out.  An operation   *)
(* that raises does so at the place its `fault` input names; a write that  *)
(* raises leaves the file it was about to write as it was.                 *)
(***************************************************************************)
EXTENDS Integers, Sequences, FiniteSets, TLC

\* ------------------------------------------------------------------ bounds
\* Longest text the splitter is run on, step by step.
MaxTextLen == 4
\* Longest text of a raw document the pipeline is run on.
MaxDocLen == 3
\* Calls of the program's operations in one behaviour.
MaxCalls == 3
\* Iterations of the chunking loop that are followed (a loop that makes no
\* progress is cut there).
MaxIter == 6
\* Largest window size and overlap a TextChunker is constructed with.
MaxWindow == 3
\* utils/config.py sets CHUNK_SIZE = 1000 and CHUNK_OVERLAP = 200; the
\* pipeline is run with these scaled-down defaults.
CHUNK_SIZE == 2
CHUNK_OVERLAP == 1
\* The longest question has this many terms.
MaxTerms == 57
\* Retrievals ask for 1..MaxTopK results, and a run makes MaxQueries of them.
MaxTopK == 3
MaxQueries == 1
\* The section header is searched in the first 200 characters of a chunk.
SECTION_SCAN == 200

\* ------------------------------------------------------------ python helpers
None == "None"
\* A file that may be missing: <<>> when it is, <<content>> when it exists.
NoFile == <<>>
FileOf(content) == <<content>>
\* A file that does not hold what its reader expects carries the name of what
\* is wrong with it: bytes that do not parse ("corrupt"), a faiss index of
\* another class than IndexIDMap ("IndexFlatL2"), a json object whose keys are
\* no decimal numbers ("keys").
DamagedFile(content, what) == <<content, what>>
IsIntact(file) == Len(file) = 1

Min(a, b) == IF a < b THEN a ELSE b
Max(a, b) == IF a > b THEN a ELSE b

\* dict.get(key, default)
Get(d, key, default) == IF key \in DOMAIN d THEN d[key] ELSE default

\* d[key] = value
Put(d, key, value) == [x \in DOMAIN d \cup {key} |-> IF x = key THEN value ELSE d[x]]

\* del d[key]
Del(d, key) == [x \in DOMAIN d \ {key} |-> d[x]]

\* dict(a, **b): the keys of b override
Merge(a, b) == [x \in DOMAIN a \cup DOMAIN b |-> IF x \in DOMAIN b THEN b[x] ELSE a[x]]

EmptyDict == [x \in {} |-> None]

\* sum(f[x] for x in S)
RECURSIVE SumOver(_, _)
SumOver(f, S) ==
    IF S = {} THEN 0
    ELSE LET x == CHOOSE y \in S : TRUE IN f[x] + SumOver(f, S \ {x})

\* max(S) of a nonempty set of integers
SetMax(S) == CHOOSE x \in S : \A y \in S : y <= x

\* s[a:b] of python, negative indices counted from the end
PyIndex(n, i) == IF i < 0 THEN Max(n + i, 0) ELSE Min(i, n)
PySlice(s, a, b) ==
    LET lo == PyIndex(Len(s), a)
        hi == PyIndex(Len(s), b)
    IN IF lo < hi THEN SubSeq(s, lo + 1, hi) ELSE <<>>

\* str.strip(), re's \s
IsSpace(c) == c \in {" ", "\n"}
RECURSIVE LStrip(_)
LStrip(s) == IF s # <<>> /\ IsSpace(Head(s)) THEN LStrip(Tail(s)) ELSE s
RECURSIVE RStrip(_)
RStrip(s) == IF s # <<>> /\ IsSpace(s[Len(s)]) THEN RStrip(SubSeq(s, 1, Len(s) - 1)) ELSE s
Strip(s) == RStrip(LStrip(s))

\* The text of n copies of the character c.
Rep(c, n) == [i \in 1..n |-> c]

\* -------------------------------------------------------------- the splitter
\* re.search(r'#+\s*(.+?)\n', s): the matches <<i, a, b, c>> with s[i:a] a run
\* of '#', s[a:b] a run of whitespace, s[b:c] nonempty without a newline and
\* s[c] the newline (0-based, as python slices).  re.search takes the leftmost
\* start, the longest run of '#', then the longest run of whitespace, then the
\* shortest group.
SectionMatches(s) ==
    UNION {{m \in {i} \X (0..Len(s)) \X (0..Len(s)) \X (0..Len(s)) :
               /\ m[1] < m[2] /\ m[2] <= m[3] /\ m[3] < m[4] /\ m[4] < Len(s)
               /\ \A j \in (m[1] + 1)..m[2] : s[j] = "#"
               /\ \A j \in (m[2] + 1)..m[3] : IsSpace(s[j])
               /\ \A j \in (m[3] + 1)..m[4] : s[j] # "\n"
               /\ s[m[4] + 1] = "\n"} :
           i \in {k \in 0..(Len(s) - 1) : s[k + 1] = "#"}}

Prefer(m, n) ==
    \/ m[1] < n[1]
    \/ m[1] = n[1] /\ m[2] > n[2]
    \/ m[1] = n[1] /\ m[2] = n[2] /\ m[3] > n[3]
    \/ m[1] = n[1] /\ m[2] = n[2] /\ m[3] = n[3] /\ m[4] <= n[4]

\* section_match.group(1).strip() if section_match else "Unknown section"
find_section(chunk_text) ==
    LET s == PySlice(chunk_text, 0, Min(SECTION_SCAN, Len(chunk_text)))
        ms == SectionMatches(s)
    IN IF ms = {} THEN <<"Unknown section">>
       ELSE LET m == CHOOSE x \in ms : \A y \in ms : Prefer(x, y)
            IN Strip(PySlice(s, m[3], m[4]))

\* The locals of the chunking loop: the chunks so far, the cursor, the ordinal.
LoopStart == [chunks |-> <<>>, start |-> 0, chunk_num |-> 0]

\* A variant of next_start below that steps back by the overlap after the
\* last window too.
next_start_no_jump(text, overlap, end) == end - overlap
\* The cursor after a window that ended at `end`; next_start_gap is the variant
\* that goes on where the window ended.
next_start_gap(text, overlap, end) == IF end < Len(text) THEN end ELSE Len(text)
next_start(text, overlap, end) == IF end < Len(text) THEN end - overlap ELSE Len(text)

\* One iteration of the loop of TextChunker._chunk_text.
chunk_text_body(text, metadata, document_id, chunk_size, chunk_overlap, st) ==
    LET end == Min(st.start + chunk_size, Len(text))
        chunk_text == PySlice(text, st.start, end)
        chunk == [chunk_id |-> <<document_id, st.chunk_num>>,
                  text |-> chunk_text,
                  metadata |-> Merge(metadata, [section |-> find_section(chunk_text),
                                                chunk_num |-> st.chunk_num])]
    IN [chunks |-> Append(st.chunks, chunk),
        start |-> next_start(text, chunk_overlap, end),
        chunk_num |-> st.chunk_num + 1]

RECURSIVE chunk_text_loop(_, _, _, _, _, _)
chunk_text_loop(text, metadata, document_id, chunk_size, chunk_overlap, st) ==
    IF st.start < Len(text)
    THEN chunk_text_loop(text, metadata, document_id, chunk_size, chunk_overlap,
             chunk_text_body(text, metadata, document_id, chunk_size, chunk_overlap, st))
    ELSE st.chunks

\* TextChunker._chunk_text
_chunk_text(text, metadata, document_id, chunk_size, chunk_overlap) ==
    chunk_text_loop(text, metadata, document_id, chunk_size, chunk_overlap, LoopStart)

\* One iteration of the loop inlined in BizBrainCLI.fully_process_document.
fpd_chunk_body(text, metadata, doc_id, chunk_size, chunk_overlap, st) ==
    LET end == Min(st.start + chunk_size, Len(text))
        chunk_text == PySlice(text, st.start, end)
        chunk == [chunk_id |-> <<doc_id, st.chunk_num>>,
                  text |-> chunk_text,
                  metadata |-> Merge(metadata, [section |-> find_section(chunk_text),
                                                chunk_num |-> st.chunk_num])]
    IN [chunks |-> Append(st.chunks, chunk),
        start |-> IF end < Len(text) THEN end - chunk_overlap ELSE Len(text),
        chunk_num |-> st.chunk_num + 1]

RECURSIVE fpd_chunk_loop(_, _, _, _, _, _)
fpd_chunk_loop(text, metadata, doc_id, chunk_size, chunk_overlap, st) ==
    IF st.start < Len(text)
    THEN fpd_chunk_loop(text, metadata, doc_id, chunk_size, chunk_overlap,
             fpd_chunk_body(text, metadata, doc_id, chunk_size, chunk_overlap, st))
    ELSE st.chunks

fpd_chunks(text, metadata, doc_id, chunk_size, chunk_overlap) ==
    fpd_chunk_loop(text, metadata, doc_id, chunk_size, chunk_overlap, LoopStart)

\* ------------------------------------------------------------------- inputs
\* raw_documents holds these files; both have a supported extension.
Files == {"a.pdf", "b.docx"}
\* What a raw file may hold (its bytes, modelled by the text they extract to):
\* nothing, whitespace only, or MaxTextLen characters.  Only a.pdf is replaced.
Contents == {<<>>, Rep(" ", 1), Rep("a", MaxDocLen)}
\* b.docx keeps its content, a.pdf is replaced by the user
ContentsOf(f) == IF f = "a.pdf" THEN Contents ELSE {Rep("a", MaxDocLen)}
\* batch ids and document ids a caller may pass
BatchIds == 1..2
DocIds == 1..2
\* effective dates "2025-01-01", "2025-02-01" as <<year, month, day>>;
\* "2025-02-30" has the format and is no date
Dates == {<<2025, 1, 1>>, <<2025, 2, 1>>}
DateOf(b) == IF b = 1 THEN <<2025, 1, 1>> ELSE <<2025, 2, 1>>
BadDate == <<2025, 2, 30>>
NoDate == <<>>
\* None where a document id or a batch id is expected
NoId == 0

\* Where an operation raises.  k is the chunk at which the embedding or the
\* chunk write fails (1-based), 0 elsewhere.
Fault(kind, k) == [kind |-> kind, k |-> k]
NoFault == Fault("none", 0)
Faults ==
    {Fault(x, 0) : x \in {"none", "hash", "extract", "write_text", "index_add",
                          "save_index", "save_map", "registry_save"}}
    \cup {Fault(x, k) : x \in {"embed", "write_chunk"}, k \in 1..MaxDocLen}
\* The exceptions followed in DocumentLoader and in VectorIndexer.
LoaderFaults == {Fault(x, 0) : x \in {"none", "extract", "registry_save"}}
IndexerFaults == {Fault(x, 0) : x \in {"none", "save_index", "save_map"}} \cup {Fault("embed", 1)}
\* A variant of the order below in which the chunks are embedded after the
\* full text has been written.
Rank_embed_after_text(kind) ==
    CASE kind = "hash" -> 1
      [] kind = "extract" -> 2
      [] kind = "write_text" -> 3
      [] kind = "embed" -> 4
      [] kind = "write_chunk" -> 5
      [] kind = "index_add" -> 6
      [] kind = "save_index" -> 7
      [] kind = "save_map" -> 8
      [] kind = "registry_save" -> 9
      [] OTHER -> 10
\* A variant of the order below in which the chunk files are written before
\* the full text.
Rank_chunks_before_text(kind) ==
    CASE kind = "hash" -> 1
      [] kind = "extract" -> 2
      [] kind = "embed" -> 3
      [] kind = "write_chunk" -> 4
      [] kind = "write_text" -> 5
      [] kind = "index_add" -> 6
      [] kind = "save_index" -> 7
      [] kind = "save_map" -> 8
      [] kind = "registry_save" -> 9
      [] OTHER -> 10
\* The order in which fully_process_document reaches them.
Rank(kind) ==
    CASE kind = "hash" -> 1
      [] kind = "extract" -> 2
      [] kind = "embed" -> 3
      [] kind = "write_text" -> 4
      [] kind = "write_chunk" -> 5
      [] kind = "index_add" -> 6
      [] kind = "save_index" -> 7
      [] kind = "save_map" -> 8
      [] kind = "registry_save" -> 9
      [] OTHER -> 10
\* The fault lies after the place `kind`: that place was passed.
Passed(fault, kind) == Rank(fault.kind) > Rank(kind)

\* All orders of the elements of S (os.listdir returns them in any order).
Perms(S) ==
    {p \in [1..Cardinality(S) -> S] : \A i, j \in 1..Cardinality(S) : p[i] = p[j] => i = j}

\* -------------------------------------------------------------------- state
VARIABLES
    raw_documents,     \* raw_documents/: filename -> content
    registry,          \* DocumentLoader.registry
    registry_file,     \* processed_documents/document_registry.json
    chunker_registry,  \* TextChunker.registry, loaded at construction
    full_text,         \* processed_documents/full_text/: document id -> text
    chunk_files,       \* processed_documents/chunks/: chunk id -> chunk
    index,             \* VectorIndexer.index: the ids of the vectors it holds
    id_to_chunk,       \* VectorIndexer.id_to_chunk
    next_id,           \* VectorIndexer.next_id
    index_file,        \* vector_store/faiss.index, or NoFile
    map_file,          \* vector_store/document_to_id_map.json, or NoFile
    issued,            \* history: every entry id assigned, in order
    result,            \* what the last operation called returned, raised and printed
    calls,             \* how many operations were called
    chunk_size,        \* TextChunker.chunk_size
    chunk_overlap,     \* TextChunker.chunk_overlap
    ck,                \* a run of TextChunker._chunk_text: its arguments and locals
    retriever,         \* HybridRetriever.vector_indexer: the index and map it loaded
    batch_run,         \* a run of batch_process_documents: its locals
    returned_batch_ids, \* history: every id create_batch returned, in order
    save_run,          \* a run of _save_registry or _save_index: its position
    reader,            \* what a second process loaded from the files at its start
    ingest             \* two pipeline instances over the same directories: what each holds

registry_vars == <<registry, registry_file, chunker_registry>>
file_vars == <<full_text, chunk_files>>
index_vars == <<index, id_to_chunk, next_id, index_file, map_file, issued>>
call_vars == <<result, calls>>
chunker_vars == <<chunk_size, chunk_overlap, ck>>
io_vars == <<save_run, reader, ingest>>
retriever_vars == <<retriever>>
run_vars == <<batch_run, returned_batch_ids>>
vars == <<raw_documents, registry_vars, file_vars, index_vars, call_vars, chunker_vars,
          retriever_vars, run_vars, io_vars>>

\* ----------------------------------------------------------------- Registry
\* DocumentLoader._load_registry when no registry file exists
NewRegistry ==
    [documents |-> EmptyDict, batches |-> EmptyDict,
     total_documents |-> 0, total_chunks |-> 0, total_batches |-> 0]

\* DocumentLoader._save_registry, TextChunker._save_registry: the file after it
_save_registry(reg, file, fault) ==
    IF fault.kind = "registry_save" THEN file ELSE reg

\* DocumentLoader._calculate_md5: texts are equal iff their digests are
_calculate_md5(content) == <<"md5", content>>

\* DocumentLoader._is_text_empty
_is_text_empty(text) == text = <<>> \/ Strip(text) = <<>>

\* DocumentLoader.extract_document_text of a supported file.  A raw file is
\* represented by the text its pages or paragraphs extract to (separators
\* included), so extraction reads that text off.
extract_document_text(content) == content

\* DocumentLoader.validate_date_format, of a string that has the format
validate_date_format(d) ==
    LET days_in_month == <<31, 29, 31, 30, 31, 30, 31, 31, 30, 31, 30, 31>>
    IN /\ Len(d) = 3
       /\ 1900 <= d[1] /\ d[1] <= 2100 /\ 1 <= d[2] /\ d[2] <= 12 /\ 1 <= d[3] /\ d[3] <= 31
       /\ d[3] <= days_in_month[d[2]]

\* A variant of assign_document_id below that always takes the next id.
assign_next_document_id(reg, filename) == Cardinality(DOMAIN reg.documents) + 1

\* A variant of assign_document_id below that gives every new file the id 1.
assign_document_id_one(reg, filename) ==
    IF filename \notin DOMAIN reg.documents THEN 1
    ELSE reg.documents[filename].document_id
\* The document id of cli.py 169-173 and document_loader.py 249-253.
assign_document_id(reg, filename) ==
    IF filename \notin DOMAIN reg.documents
       \/ "document_id" \notin DOMAIN reg.documents[filename]
    THEN Cardinality(DOMAIN reg.documents) + 1
    ELSE reg.documents[filename].document_id

\* The loader's state, for the operations below.
LoaderState == [registry |-> registry, registry_file |-> registry_file, full_text |-> full_text]

\* DocumentLoader.create_batch
create_batch(L, effective_date, fault) ==
    LET batch_id == Get(L.registry, "total_batches", 0) + 1
        batches == Put(L.registry.batches, batch_id,
                       [effective_date |-> effective_date, document_count |-> 0])
        reg == [L.registry EXCEPT !.batches = batches,
                                  !.total_batches = Cardinality(DOMAIN batches)]
    IN [registry |-> reg,
        registry_file |-> _save_registry(reg, L.registry_file, fault),
        full_text |-> L.full_text,
        raised |-> IF fault.kind = "registry_save" THEN "OSError" ELSE None,
        batch_id |-> batch_id]

\* A variant of delete_empty_batch that does not look at document_count.
delete_batch_unchecked(L, batch_id, fault) ==
    IF batch_id \notin DOMAIN L.registry.batches
    THEN L @@ [raised |-> None, success |-> FALSE, message |-> "does not exist"]
    ELSE LET batches == Del(L.registry.batches, batch_id)
             reg == [L.registry EXCEPT !.batches = batches,
                                       !.total_batches = Cardinality(DOMAIN batches)]
         IN [registry |-> reg,
             registry_file |-> _save_registry(reg, L.registry_file, fault),
             full_text |-> L.full_text,
             raised |-> IF fault.kind = "registry_save" THEN "OSError" ELSE None,
             success |-> fault.kind # "registry_save",
             message |-> None]

\* DocumentLoader.delete_empty_batch
delete_empty_batch(L, batch_id, fault) ==
    IF batch_id \notin DOMAIN L.registry.batches
    THEN L @@ [raised |-> None, success |-> FALSE, message |-> "does not exist"]
    ELSE IF L.registry.batches[batch_id].document_count > 0
    THEN L @@ [raised |-> None, success |-> FALSE, message |-> "Cannot delete non-empty batch"]
    ELSE LET batches == Del(L.registry.batches, batch_id)
             reg == [L.registry EXCEPT !.batches = batches,
                                       !.total_batches = Cardinality(DOMAIN batches)]
         IN [registry |-> reg,
             registry_file |-> _save_registry(reg, L.registry_file, fault),
             full_text |-> L.full_text,
             raised |-> IF fault.kind = "registry_save" THEN "OSError" ELSE None,
             success |-> fault.kind # "registry_save",
             message |-> None]

\* DocumentLoader.process_document.  `ret` is the document id returned, NoId
\* for None; `raised` is the exception that leaves the method (the hash is
\* computed outside its try).
process_document(L, content, filename, batch_id, effective_date, fault) ==
    LET reg == L.registry
        md5_hash == _calculate_md5(content)
        text == extract_document_text(content)
        doc_id == assign_document_id(reg, filename)
        with_batch == batch_id # NoId /\ effective_date # NoDate
        doc_entry == Merge([status |-> "processed", document_id |-> doc_id,
                            md5_hash |-> md5_hash],
                           IF with_batch
                           THEN [batch_id |-> batch_id, effective_date |-> effective_date]
                           ELSE EmptyDict)
        batches == IF with_batch /\ batch_id \in DOMAIN reg.batches
                   THEN [reg.batches EXCEPT ![batch_id].document_count = @ + 1]
                   ELSE reg.batches
        documents == Put(reg.documents, filename, doc_entry)
        new_reg == [reg EXCEPT !.batches = batches,
                               !.documents = documents,
                               !.total_documents =
                                   IF Cardinality(DOMAIN documents) > @
                                   THEN Cardinality(DOMAIN documents) ELSE @]
        same == L @@ [raised |-> None, ret |-> NoId]
    IN IF fault.kind = "hash" THEN L @@ [raised |-> "OSError", ret |-> NoId]
       ELSE IF filename \in DOMAIN reg.documents
               /\ reg.documents[filename].md5_hash = md5_hash THEN same
       ELSE IF fault.kind = "extract" THEN same
       ELSE IF _is_text_empty(text) THEN same
       ELSE IF fault.kind = "write_text" THEN same
       ELSE [registry |-> new_reg,
             registry_file |-> _save_registry(new_reg, L.registry_file, fault),
             full_text |-> Put(L.full_text, doc_id, text),
             raised |-> None,
             ret |-> IF fault.kind = "registry_save" THEN NoId ELSE doc_id]

\* The loop of DocumentLoader.process_batch over filenames[i..]; the fault, if
\* any, strikes the file at position fault_at.
RECURSIVE process_batch_loop(_, _, _, _, _, _, _, _)
process_batch_loop(L, raw, filenames, i, batch_id, effective_date, fault, fault_at) ==
    IF i > Len(filenames) \/ L.raised # None THEN L
    ELSE LET r == process_document(
                      [registry |-> L.registry, registry_file |-> L.registry_file,
                       full_text |-> L.full_text],
                      raw[filenames[i]], filenames[i], batch_id, effective_date,
                      IF i = fault_at THEN fault ELSE NoFault)
         IN process_batch_loop(
                [registry |-> r.registry, registry_file |-> r.registry_file,
                 full_text |-> r.full_text, raised |-> r.raised,
                 batch_id |-> batch_id,
                 processed_docs |-> IF r.ret # NoId
                                    THEN Append(L.processed_docs, <<r.ret, filenames[i]>>)
                                    ELSE L.processed_docs,
                 failed_docs |-> IF r.ret = NoId /\ r.raised = None
                                 THEN Append(L.failed_docs, filenames[i])
                                 ELSE L.failed_docs],
                raw, filenames, i + 1, batch_id, effective_date, fault, fault_at)

\* DocumentLoader.process_batch
process_batch(L, raw, filenames, effective_date, fault, fault_at) ==
    IF filenames = <<>>
    THEN L @@ [raised |-> None, batch_id |-> NoId, processed_docs |-> <<>>, failed_docs |-> <<>>]
    ELSE IF ~validate_date_format(effective_date)
    THEN L @@ [raised |-> "ValueError", batch_id |-> NoId, processed_docs |-> <<>>,
               failed_docs |-> <<>>]
    ELSE LET b == create_batch(L, effective_date, NoFault)
         IN process_batch_loop(
                [registry |-> b.registry, registry_file |-> b.registry_file,
                 full_text |-> b.full_text, raised |-> None, batch_id |-> b.batch_id,
                 processed_docs |-> <<>>, failed_docs |-> <<>>],
                raw, filenames, 1, b.batch_id, effective_date, fault, fault_at)

\* ------------------------------------------------------------- Vector Index
\* The indexer's state, for the operations below.
IndexState ==
    [index |-> index, id_to_chunk |-> id_to_chunk, next_id |-> next_id,
     index_file |-> index_file, map_file |-> map_file, issued |-> issued]

\* A new IndexIDMap over IndexFlatL2, an empty map, next id 0.
NewIndex(ix) == [ix EXCEPT !.index = <<>>, !.id_to_chunk = EmptyDict, !.next_id = 0]

\* What a VectorIndexer holds in memory after its construction.
LoadedIndex(ix) == [index |-> ix.index, id_to_chunk |-> ix.id_to_chunk, next_id |-> ix.next_id]

\* The next id after a load of the map m.
loaded_next_id(m) == IF DOMAIN m # {} THEN SetMax(DOMAIN m) + 1 ELSE 0

\* VectorIndexer._load_or_create_index.  The map file's keys are the decimal
\* strings of the ids, read back with int().
_load_or_create_index(ix) ==
    IF ix.index_file # NoFile /\ ix.map_file # NoFile
    THEN IF ~IsIntact(ix.index_file) /\ ix.index_file[2] = "corrupt" THEN NewIndex(ix)
         ELSE IF ~IsIntact(ix.map_file) THEN NewIndex(ix)
         ELSE [ix EXCEPT !.index = IF IsIntact(ix.index_file) THEN ix.index_file[1] ELSE <<>>,
                         !.id_to_chunk = ix.map_file[1],
                         !.next_id = loaded_next_id(ix.map_file[1])]
    ELSE NewIndex(ix)

\* What _load_or_create_index prints, in order (vector_indexer.py 30, 50).
load_printed(ix) ==
    IF ix.index_file # NoFile /\ ix.map_file # NoFile
    THEN IF ~IsIntact(ix.index_file) /\ ix.index_file[2] = "corrupt"
         THEN <<"Error loading index">>
         ELSE (IF IsIntact(ix.index_file) THEN <<>> ELSE <<"Converting existing index">>)
              \o (IF IsIntact(ix.map_file) THEN <<>> ELSE <<"Error loading index">>)
    ELSE <<>>

\* VectorIndexer._save_index: the index file is written, then the map file.
_save_index(ix, fault) ==
    IF fault.kind = "save_index" THEN ix
    ELSE IF fault.kind = "save_map" THEN [ix EXCEPT !.index_file = FileOf(ix.index)]
    ELSE [ix EXCEPT !.index_file = FileOf(ix.index), !.map_file = FileOf(ix.id_to_chunk)]

\* ids = np.arange(next_id, next_id + n); index.add_with_ids; the map is
\* updated; next_id += n.  chunk_data is a sequence of [chunk_id, metadata].
RECURSIVE map_entries(_, _, _, _)
map_entries(m, first, chunk_data, i) ==
    IF i > Len(chunk_data) THEN m
    ELSE map_entries(Put(m, first + i - 1, chunk_data[i]), first, chunk_data, i + 1)

insert_entries(ix, chunk_data) ==
    LET n == Len(chunk_data)
        ids == [i \in 1..n |-> ix.next_id + i - 1]
    IN [ix EXCEPT !.index = ix.index \o ids,
                  !.id_to_chunk = map_entries(ix.id_to_chunk, ix.next_id, chunk_data, 1),
                  !.next_id = ix.next_id + n,
                  !.issued = ix.issued \o ids]

\* What goes into id_to_chunk for the chunks of a document.
ChunkData(chunks) ==
    [i \in 1..Len(chunks) |-> [chunk_id |-> chunks[i].chunk_id, metadata |-> chunks[i].metadata]]

\* The body of the try of VectorIndexer.add_embeddings_bulk, after its checks.
bulk_insert(ix, chunk_data, fault) ==
    IF fault.kind = "index_add" THEN ix
    ELSE _save_index(insert_entries(ix, chunk_data), fault)

\* VectorIndexer.add_embeddings_bulk: True or False, never an exception.
add_embeddings_bulk(ix, n_embeddings, chunk_data, fault) ==
    IF n_embeddings = 0 \/ chunk_data = <<>> THEN ix @@ [ret |-> FALSE]
    ELSE IF n_embeddings # Len(chunk_data) THEN ix @@ [ret |-> FALSE]
    ELSE bulk_insert(ix, chunk_data, fault)
         @@ [ret |-> fault.kind \notin {"index_add", "save_index", "save_map"}]

\* VectorIndexer.add_document_chunks; chunk_ids are the chunk files of the
\* document in the order os.listdir gave them.
add_document_chunks(ix, chunks_dir, chunk_ids, fault) ==
    IF chunk_ids = <<>> THEN ix @@ [raised |-> None, ret |-> 0]
    ELSE IF fault.kind \in {"embed", "index_add"}
    THEN ix @@ [raised |-> "Exception", ret |-> 0]
    ELSE _save_index(
             insert_entries(ix, ChunkData([i \in 1..Len(chunk_ids) |-> chunks_dir[chunk_ids[i]]])),
             fault)
         @@ [raised |-> IF fault.kind \in {"save_index", "save_map"} THEN "Exception" ELSE None,
             ret |-> IF fault.kind \in {"save_index", "save_map"} THEN 0 ELSE Len(chunk_ids)]

\* ------------------------------------------------------------ TextChunker
\* re.search(r'^#*\s*(.+?)\n', text): <<a, b, c>> with text[0:a] a run of '#',
\* text[a:b] a run of whitespace, text[b:c] nonempty without a newline and
\* text[c] the newline; the longest runs and the shortest group are taken.
TitleMatches(s) ==
    {m \in (0..Len(s)) \X (0..Len(s)) \X (0..Len(s)) :
        /\ m[1] <= m[2] /\ m[2] < m[3] /\ m[3] < Len(s)
        /\ \A j \in 1..m[1] : s[j] = "#"
        /\ \A j \in (m[1] + 1)..m[2] : IsSpace(s[j])
        /\ \A j \in (m[2] + 1)..m[3] : s[j] # "\n"
        /\ s[m[3] + 1] = "\n"}

\* re.search(r'^(.+?)\n', text): the first line, when it is not empty
LineMatches(s) ==
    {m \in (0..Len(s)) \X (0..Len(s)) \X (0..Len(s)) :
        /\ m[1] = 0 /\ m[2] = 0 /\ m[2] < m[3] /\ m[3] < Len(s)
        /\ \A j \in 1..m[3] : s[j] # "\n"
        /\ s[m[3] + 1] = "\n"}

\* TextChunker._extract_metadata
_extract_metadata(text, document_id, filename, doc_entry) ==
    LET ms == IF TitleMatches(text) # {} THEN TitleMatches(text) ELSE LineMatches(text)
        best == CHOOSE x \in ms : \A y \in ms :
                    \/ x[1] > y[1]
                    \/ x[1] = y[1] /\ x[2] > y[2]
                    \/ x[1] = y[1] /\ x[2] = y[2] /\ x[3] <= y[3]
        title == IF ms = {} THEN <<filename>> ELSE PySlice(text, best[2], best[3])
    IN Merge([document_id |-> document_id, title |-> Strip(title), filename |-> filename],
             [k \in {"batch_id", "effective_date"} \cap DOMAIN doc_entry |-> doc_entry[k]])

\* The chunk files after chunks[1..m] were written.
RECURSIVE write_chunks(_, _, _)
write_chunks(dir, chunks, m) ==
    IF m = 0 THEN dir
    ELSE Put(write_chunks(dir, chunks, m - 1), chunks[m].chunk_id, chunks[m])

\* A variant of chunks_written below: no chunk file is written.
chunks_written_none(n, fault) == 0

\* How many chunk files a run writes that meets `fault`.
chunks_written(n, fault) ==
    IF fault.kind = "write_chunk" THEN fault.k - 1
    ELSE IF Passed(fault, "write_chunk") THEN n ELSE 0

\* sum(doc.get("chunk_count", 0) for doc in documents.values())
total_chunk_count(documents) ==
    SumOver([f \in DOMAIN documents |-> Get(documents[f], "chunk_count", 0)], DOMAIN documents)

\* TextChunker.process_document, on the chunker's own copy of the registry.
chunker_process_document(reg, file, dir, texts, document_id, size, overlap, fault) ==
    LET found == {f \in DOMAIN reg.documents :
                      Get(reg.documents[f], "document_id", NoId) = document_id}
        filename == CHOOSE f \in found : TRUE
        doc_entry == reg.documents[filename]
        text == texts[document_id]
        metadata == _extract_metadata(text, document_id, filename, doc_entry)
        chunks == _chunk_text(text, metadata, document_id, size, overlap)
        new_entry == Merge(doc_entry, [status |-> "processed", chunk_count |-> Len(chunks)])
        documents == Put(reg.documents, filename, new_entry)
        new_reg == [reg EXCEPT !.documents = documents,
                               !.total_chunks = total_chunk_count(documents)]
        same == [chunker_registry |-> reg, registry_file |-> file, chunk_files |-> dir]
    IN IF found = {} THEN same @@ [raised |-> "ValueError", ret |-> 0]
       ELSE IF Get(doc_entry, "status", None) = "processed"
       THEN same @@ [raised |-> None, ret |-> Get(doc_entry, "chunk_count", 0)]
       ELSE IF document_id \notin DOMAIN texts
       THEN same @@ [raised |-> "FileNotFoundError", ret |-> 0]
       ELSE IF fault.kind = "write_chunk"
       THEN [chunker_registry |-> reg, registry_file |-> file,
             chunk_files |-> write_chunks(dir, chunks, chunks_written(Len(chunks), fault)),
             raised |-> "OSError", ret |-> 0]
       ELSE [chunker_registry |-> new_reg,
             registry_file |-> _save_registry(new_reg, file, fault),
             chunk_files |-> write_chunks(dir, chunks, Len(chunks)),
             raised |-> IF fault.kind = "registry_save" THEN "OSError" ELSE None,
             ret |-> IF fault.kind = "registry_save" THEN 0 ELSE Len(chunks)]

\* A variant of already_processed below: no document counts as processed.
already_processed_never(reg, filename, md5_hash) == FALSE
\* ------------------------------------------------------ Ingestion Pipeline
\* The check of cli.py 157-159: processed already, and unchanged.
already_processed(reg, filename, md5_hash) ==
    /\ filename \in DOMAIN reg.documents
    /\ reg.documents[filename].md5_hash = md5_hash
    /\ reg.documents[filename].status = "processed"

\* A variant of step 6 that leaves the index as it is.
fpd_skip_index(ix, chunks, fault) == ix

\* Step 6 of fully_process_document (cli.py 249-267).
fpd_update_index(ix, chunks, fault) ==
    IF chunks = <<>> \/ ~Passed(fault, "index_add") THEN ix
    ELSE _save_index(insert_entries(ix, ChunkData(chunks)), fault)

\* A variant of step 7 below that leaves total_documents as it was.
fpd_update_registry_no_total(reg, filename, doc_id, md5_hash, batch_id, effective_date, n) ==
    LET doc_entry == [status |-> "processed", document_id |-> doc_id, md5_hash |-> md5_hash,
                      batch_id |-> batch_id, effective_date |-> effective_date,
                      chunk_count |-> n]
        documents == Put(reg.documents, filename, doc_entry)
    IN [reg EXCEPT !.documents = documents,
                   !.batches = IF batch_id \in DOMAIN reg.batches
                               THEN [reg.batches EXCEPT ![batch_id].document_count = @ + 1]
                               ELSE reg.batches,
                   !.total_chunks = total_chunk_count(documents)]

\* Step 7 of fully_process_document, before the save (cli.py 270-295).
fpd_update_registry(reg, filename, doc_id, md5_hash, batch_id, effective_date, n) ==
    LET doc_entry == [status |-> "processed", document_id |-> doc_id, md5_hash |-> md5_hash,
                      batch_id |-> batch_id, effective_date |-> effective_date,
                      chunk_count |-> n]
        documents == Put(reg.documents, filename, doc_entry)
    IN [reg EXCEPT !.documents = documents,
                   !.batches = IF batch_id \in DOMAIN reg.batches
                               THEN [reg.batches EXCEPT ![batch_id].document_count = @ + 1]
                               ELSE reg.batches,
                   !.total_documents = IF Cardinality(DOMAIN documents) > @
                                       THEN Cardinality(DOMAIN documents) ELSE @,
                   !.total_chunks = total_chunk_count(documents)]

\* The chunks fully_process_document makes of a file.
fpd_chunks_of(reg, content, filename, batch_id, effective_date, size, overlap) ==
    LET doc_id == assign_document_id(reg, filename)
    IN fpd_chunks(extract_document_text(content),
                  [document_id |-> doc_id, title |-> <<filename>>, filename |-> filename,
                   batch_id |-> batch_id, effective_date |-> effective_date],
                  doc_id, size, overlap)

\* The places at which a run of fully_process_document can raise.
fpd_can_raise(reg, content, filename, n, fault) ==
    \/ fault.kind \in {"none", "hash"}
    \/ /\ ~already_processed(reg, filename, _calculate_md5(content))
       /\ \/ fault.kind \in {"extract", "write_text", "registry_save"}
          \/ fault.kind \in {"embed", "write_chunk"} /\ fault.k <= n
          \/ fault.kind \in {"index_add", "save_index", "save_map"} /\ n > 0

\* A variant of the result below that reports no chunk count.
fpd_result_no_count(success, doc_id, chunk_count, filename, kind, printed) ==
    [op |-> "fully_process_document",
     success |-> success, doc_id |-> doc_id, chunk_count |-> 0,
     error_msg |-> IF success THEN <<None>> ELSE <<"Error processing document", filename, kind>>,
     printed |-> printed]

\* BizBrainCLI.fully_process_document returns <<success, doc_id, chunk_count,
\* error_msg>>; error_msg names the file and the exception.  `printed` is the
\* line it prints when it skips a document.
fpd_result(success, doc_id, chunk_count, filename, kind, printed) ==
    [op |-> "fully_process_document",
     success |-> success, doc_id |-> doc_id, chunk_count |-> chunk_count,
     error_msg |-> IF success THEN <<None>> ELSE <<"Error processing document", filename, kind>>,
     printed |-> printed]

\* ------------------------------------------------------------------ actions
\* The state after construction of BizBrainCLI in an empty base directory:
\* DocumentLoader writes a new registry, TextChunker loads it, VectorIndexer
\* finds no index and creates one.
IdleRun ==
    [pc |-> "idle", selected |-> <<>>, i |-> 0, batch_id |-> NoId, effective_date |-> NoDate,
     processed_docs |-> <<>>, failed_docs |-> <<>>, outcomes |-> <<>>]
\* No save is running, and no second process has been started.
IdleSave == [pc |-> "idle", old |-> NoFile]
NoReader == [op |-> "none"]
NoIngest == <<>>
IdleChunker ==
    [pc |-> "idle", loop |-> "none", text |-> <<>>, st |-> LoopStart, ranges |-> <<>>]

InitPipeline ==
    /\ registry = NewRegistry
    /\ registry_file = NewRegistry
    /\ chunker_registry = NewRegistry
    /\ full_text = EmptyDict
    /\ chunk_files = EmptyDict
    /\ index = <<>>
    /\ id_to_chunk = EmptyDict
    /\ next_id = 0
    /\ index_file = NoFile
    /\ map_file = NoFile
    /\ issued = <<>>
    /\ result = [op |-> "__init__", printed |-> <<>>]
    /\ calls = 0
    /\ retriever = LoadedIndex(NewIndex(IndexState))
    /\ batch_run = IdleRun
    /\ returned_batch_ids = <<>>

Init ==
    /\ raw_documents \in {r \in [Files -> Contents] : \A g \in Files : r[g] \in ContentsOf(g)}
    /\ InitPipeline
    /\ chunk_size = CHUNK_SIZE
    /\ chunk_overlap = CHUNK_OVERLAP
    /\ ck = IdleChunker
    /\ save_run = IdleSave
    /\ reader = NoReader
    /\ ingest = NoIngest

SetIndex(ix) ==
    /\ index' = ix.index
    /\ id_to_chunk' = ix.id_to_chunk
    /\ next_id' = ix.next_id
    /\ index_file' = ix.index_file
    /\ map_file' = ix.map_file
    /\ issued' = ix.issued

SetLoader(L) ==
    /\ registry' = L.registry
    /\ registry_file' = L.registry_file
    /\ full_text' = L.full_text

\* The user replaces a raw document, before some call.
ModifyFile(filename, content) ==
    /\ calls < MaxCalls
    /\ raw_documents[filename] # content
    /\ raw_documents' = [raw_documents EXCEPT ![filename] = content]
    /\ UNCHANGED <<registry_vars, file_vars, index_vars, call_vars, chunker_vars, io_vars,
                   retriever_vars, run_vars>>

\* BizBrainCLI.fully_process_document
FullyProcess(filename, batch_id, effective_date, fault) ==
    LET content == raw_documents[filename]
        md5_hash == _calculate_md5(content)
        skip == already_processed(registry, filename, md5_hash)
        text == extract_document_text(content)
        doc_id == assign_document_id(registry, filename)
        chunks == fpd_chunks_of(registry, content, filename, batch_id, effective_date,
                                chunk_size, chunk_overlap)
        n == Len(chunks)
        new_reg == fpd_update_registry(registry, filename, doc_id, md5_hash, batch_id,
                                       effective_date, n)
    IN /\ calls < MaxCalls
       /\ fpd_can_raise(registry, content, filename, n, fault)
       /\ calls' = calls + 1
       /\ IF fault.kind = "hash"
          THEN /\ result' = fpd_result(FALSE, NoId, 0, filename, fault.kind, None)
               /\ UNCHANGED <<registry_vars, file_vars, index_vars>>
          ELSE IF skip
          THEN /\ result' = fpd_result(TRUE, registry.documents[filename].document_id,
                                       Get(registry.documents[filename], "chunk_count", 0),
                                       filename, fault.kind, "Skipping")
               /\ UNCHANGED <<registry_vars, file_vars, index_vars>>
          ELSE /\ result' = IF fault.kind = "none"
                            THEN fpd_result(TRUE, doc_id, n, filename, fault.kind, None)
                            ELSE fpd_result(FALSE, NoId, 0, filename, fault.kind, None)
               /\ full_text' = IF Passed(fault, "write_text")
                               THEN Put(full_text, doc_id, text) ELSE full_text
               /\ chunk_files' = write_chunks(chunk_files, chunks, chunks_written(n, fault))
               /\ SetIndex(fpd_update_index(IndexState, chunks, fault))
               /\ registry' = IF Passed(fault, "save_map") THEN new_reg ELSE registry
               /\ registry_file' = IF fault.kind = "none" THEN new_reg ELSE registry_file
               /\ UNCHANGED chunker_registry
       /\ UNCHANGED <<raw_documents, chunker_vars, io_vars, retriever_vars>>

\* DocumentLoader.create_batch
CreateBatch(effective_date, fault) ==
    LET r == create_batch(LoaderState, effective_date, fault)
    IN /\ calls < MaxCalls
       /\ fault.kind \in {"none", "registry_save"}
       /\ calls' = calls + 1
       /\ SetLoader(r)
       /\ result' = [op |-> "create_batch", raised |-> r.raised, batch_id |-> r.batch_id]
       /\ returned_batch_ids' = IF r.raised = None THEN Append(returned_batch_ids, r.batch_id)
                                ELSE returned_batch_ids
       /\ UNCHANGED <<raw_documents, chunker_registry, chunk_files, index_vars, chunker_vars, io_vars,
                      retriever_vars, batch_run>>

\* DocumentLoader.delete_empty_batch
DeleteEmptyBatch(batch_id, fault) ==
    LET r == delete_empty_batch(LoaderState, batch_id, fault)
    IN /\ calls < MaxCalls
       /\ \/ fault.kind = "none"
          \/ /\ fault.kind = "registry_save"
             /\ batch_id \in DOMAIN registry.batches
             /\ registry.batches[batch_id].document_count = 0
       /\ calls' = calls + 1
       /\ SetLoader(r)
       /\ result' = [op |-> "delete_empty_batch", raised |-> r.raised,
                     success |-> r.success, message |-> r.message]
       /\ UNCHANGED <<raw_documents, chunker_registry, chunk_files, index_vars, chunker_vars, io_vars,
                      retriever_vars, run_vars>>

\* DocumentLoader.process_document
LoaderProcessDocument(filename, batch_id, effective_date, fault) ==
    LET r == process_document(LoaderState, raw_documents[filename], filename, batch_id,
                               effective_date, fault)
        fresh == ~(/\ filename \in DOMAIN registry.documents
                   /\ registry.documents[filename].md5_hash
                          = _calculate_md5(raw_documents[filename]))
    IN /\ calls < MaxCalls
       /\ \/ fault.kind \in {"none", "hash"}
          \/ fault.kind = "extract" /\ fresh
          \/ /\ fault.kind \in {"write_text", "registry_save"}
             /\ fresh
             /\ ~_is_text_empty(raw_documents[filename])
       /\ calls' = calls + 1
       /\ SetLoader(r)
       /\ result' = [op |-> "process_document", raised |-> r.raised, ret |-> r.ret]
       /\ UNCHANGED <<raw_documents, chunker_registry, chunk_files, index_vars, chunker_vars, io_vars,
                      retriever_vars, run_vars>>

\* DocumentLoader.process_batch
ProcessBatch(filenames, effective_date, fault, fault_at) ==
    LET r == process_batch(LoaderState, raw_documents, filenames, effective_date, fault,
                           fault_at)
    IN /\ calls < MaxCalls
       /\ \/ fault.kind = "none" /\ fault_at = 0
          \/ /\ fault.kind = "extract"
             /\ fault_at \in 1..Len(filenames)
             /\ validate_date_format(effective_date)
       /\ calls' = calls + 1
       /\ SetLoader(r)
       /\ result' = [op |-> "process_batch", raised |-> r.raised, batch_id |-> r.batch_id,
                     processed_docs |-> r.processed_docs, failed_docs |-> r.failed_docs]
       /\ returned_batch_ids' = IF r.batch_id # NoId THEN Append(returned_batch_ids, r.batch_id)
                                ELSE returned_batch_ids
       /\ UNCHANGED <<raw_documents, chunker_registry, chunk_files, index_vars, chunker_vars, io_vars,
                      retriever_vars, batch_run>>

\* TextChunker.process_document
ChunkerProcessDocument(document_id, fault) ==
    LET r == chunker_process_document(chunker_registry, registry_file, chunk_files,
                                      full_text, document_id, chunk_size, chunk_overlap,
                                      fault)
        todo == \E f \in DOMAIN chunker_registry.documents :
                    /\ Get(chunker_registry.documents[f], "document_id", NoId) = document_id
                    /\ Get(chunker_registry.documents[f], "status", None) # "processed"
                    /\ document_id \in DOMAIN full_text
    IN /\ calls < MaxCalls
       /\ \/ fault.kind = "none"
          \/ fault.kind = "registry_save" /\ todo
          \/ fault.kind = "write_chunk" /\ todo /\ fault.k <= r.ret
       /\ calls' = calls + 1
       /\ chunker_registry' = r.chunker_registry
       /\ registry_file' = r.registry_file
       /\ chunk_files' = r.chunk_files
       /\ result' = [op |-> "chunker_process_document", raised |-> r.raised, ret |-> r.ret]
       /\ UNCHANGED <<raw_documents, registry, full_text, index_vars, chunker_vars, io_vars,
                      retriever_vars, run_vars>>

\* VectorIndexer.add_embeddings_bulk, with n_embeddings vectors and the chunk
\* data of the first n_data chunks of a document.
AddEmbeddingsBulk(n_embeddings, document_id, n_data, fault) ==
    LET chunk_data == [i \in 1..n_data |->
                          [chunk_id |-> <<document_id, i - 1>>,
                           metadata |-> [document_id |-> document_id, chunk_num |-> i - 1]]]
        r == add_embeddings_bulk(IndexState, n_embeddings, chunk_data, fault)
    IN /\ calls < MaxCalls
       /\ \/ fault.kind = "none"
          \/ /\ fault.kind \in {"save_index", "save_map"}
             /\ n_embeddings = n_data /\ n_data > 0
       /\ calls' = calls + 1
       /\ SetIndex(r)
       /\ result' = [op |-> "add_embeddings_bulk", raised |-> None, ret |-> r.ret]
       /\ UNCHANGED <<raw_documents, registry_vars, file_vars, chunker_vars, io_vars,
                      retriever_vars, run_vars>>

\* VectorIndexer.add_document_chunks
AddDocumentChunks(document_id, chunk_ids, fault) ==
    LET r == add_document_chunks(IndexState, chunk_files, chunk_ids, fault)
    IN /\ calls < MaxCalls
       /\ \/ fault.kind = "none"
          \/ fault.kind \in {"index_add", "save_index", "save_map"} /\ chunk_ids # <<>>
          \/ fault.kind = "embed" /\ fault.k <= Len(chunk_ids)
       /\ calls' = calls + 1
       /\ SetIndex(r)
       /\ result' = [op |-> "add_document_chunks", raised |-> r.raised, ret |-> r.ret]
       /\ UNCHANGED <<raw_documents, registry_vars, file_vars, chunker_vars, io_vars,
                      retriever_vars, run_vars>>

\* The process ends and BizBrainCLI is constructed again over the same
\* directories: the registry, the index and the map are read from their files.
Restart ==
    /\ calls < MaxCalls
    /\ calls' = calls + 1
    /\ result' = [op |-> "__init__", printed |-> load_printed(IndexState)]
    /\ registry' = registry_file
    /\ chunker_registry' = registry_file
    /\ SetIndex(_load_or_create_index(IndexState))
    /\ retriever' = LoadedIndex(_load_or_create_index(IndexState))
    /\ UNCHANGED <<raw_documents, registry_file, file_vars, chunker_vars, io_vars, run_vars>>

\* The lists of files process_batch is called with.
FileLists == {<<>>, <<"a.pdf">>, <<"b.docx", "a.pdf">>}

Next ==
    \/ \E f \in Files : \E c \in ContentsOf(f) : ModifyFile(f, c)
    \/ \E f \in Files, b \in BatchIds, fault \in Faults :
           FullyProcess(f, b, DateOf(b), fault) /\ UNCHANGED run_vars
    \/ \E d \in Dates, fault \in LoaderFaults : CreateBatch(d, fault)
    \/ \E b \in BatchIds, fault \in LoaderFaults : DeleteEmptyBatch(b, fault)
    \/ \E f \in Files, b \in {NoId, 1}, fault \in LoaderFaults :
           LoaderProcessDocument(f, b, IF b = NoId THEN NoDate ELSE DateOf(b), fault)
    \/ \E fs \in FileLists, d \in {DateOf(2), BadDate}, fault \in LoaderFaults :
           \E k \in 0..Len(fs) : ProcessBatch(fs, d, fault, k)
    \/ \E i \in DocIds, fault \in Faults : ChunkerProcessDocument(i, fault)
    \/ \E nm \in {<<0, 0>>, <<1, 2>>, <<2, 2>>}, fault \in IndexerFaults :
           AddEmbeddingsBulk(nm[1], 1, nm[2], fault)
    \/ \E i \in DocIds :
           \E p \in Perms({c \in DOMAIN chunk_files : c[1] = i}), fault \in IndexerFaults :
               AddDocumentChunks(i, p, fault)
    \/ Restart

Spec == Init /\ [][Next]_vars

\* The pipeline restricted to the batch operations of the CLI: create_batch,
\* fully_process_document and delete_empty_batch, on files the user may replace.
NextBatch ==
    \/ \E f \in Files : \E c \in ContentsOf(f) : ModifyFile(f, c)
    \/ \E f \in Files, b \in BatchIds, fault \in Faults :
           FullyProcess(f, b, DateOf(b), fault) /\ UNCHANGED run_vars
    \/ \E d \in Dates, fault \in LoaderFaults : CreateBatch(d, fault)
    \/ \E b \in BatchIds, fault \in LoaderFaults : DeleteEmptyBatch(b, fault)

SpecBatch == Init /\ [][NextBatch]_vars

\* ------------------------------------------------------ the splitter, stepwise
\* The texts the splitter is run on.
Alphabet == {"a", "#", "\n"}
Texts == UNION {[1..n -> Alphabet] : n \in 0..MaxTextLen}
\* The metadata and the document id the chunks are made with.
ChunkMetadata == [document_id |-> 1, filename |-> "a.pdf"]

\* TextChunker(chunk_size, chunk_overlap): any window size and overlap are
\* taken, the constructor compares them with nothing.
InitChunk ==
    /\ raw_documents = [f \in Files |-> <<>>]
    /\ InitPipeline
    /\ chunk_size \in 1..MaxWindow
    /\ chunk_overlap \in 0..MaxWindow
    /\ ck = IdleChunker
    /\ save_run = IdleSave
    /\ reader = NoReader
    /\ ingest = NoIngest

\* A call of TextChunker._chunk_text ("_chunk_text") or the arrival of
\* fully_process_document at its inlined loop ("fully_process_document").
ChunkCall(loop, text) ==
    /\ ck.pc = "idle"
    /\ ck' = [pc |-> "loop", loop |-> loop, text |-> text, st |-> LoopStart, ranges |-> <<>>]
    /\ UNCHANGED <<raw_documents, registry_vars, file_vars, index_vars, call_vars,
                   chunk_size, chunk_overlap, io_vars, retriever_vars, run_vars>>

\* One iteration of `while start < len(text)`; ranges records text[start:end].
ChunkIter ==
    /\ ck.pc = "loop"
    /\ ck.st.start < Len(ck.text)
    /\ Len(ck.st.chunks) < MaxIter
    /\ LET st == IF ck.loop = "_chunk_text"
                 THEN chunk_text_body(ck.text, ChunkMetadata, 1, chunk_size, chunk_overlap,
                                      ck.st)
                 ELSE fpd_chunk_body(ck.text, ChunkMetadata, 1, chunk_size, chunk_overlap,
                                     ck.st)
           made == st.chunks[Len(st.chunks)]
       IN ck' = [ck EXCEPT !.st = st,
                           !.ranges = Append(@, <<ck.st.start,
                                                  ck.st.start + Len(made.text)>>)]
    /\ UNCHANGED <<raw_documents, registry_vars, file_vars, index_vars, call_vars,
                   chunk_size, chunk_overlap, io_vars, retriever_vars, run_vars>>

\* The loop's condition is false: the chunks are returned.
ChunkReturn ==
    /\ ck.pc = "loop"
    /\ ~(ck.st.start < Len(ck.text))
    /\ ck' = [ck EXCEPT !.pc = "done"]
    /\ UNCHANGED <<raw_documents, registry_vars, file_vars, index_vars, call_vars,
                   chunk_size, chunk_overlap, io_vars, retriever_vars, run_vars>>

NextChunk ==
    \/ \E loop \in {"_chunk_text", "fully_process_document"}, text \in Texts :
           ChunkCall(loop, text)
    \/ ChunkIter
    \/ ChunkReturn

SpecChunk == InitChunk /\ [][NextChunk]_vars

\* The loop is a sequential program: an iteration that can be taken is taken,
\* and a loop whose condition is false returns.  IterPossible and
\* ReturnPossible are the guards of the two steps, so this is weak fairness
\* of each of them.
IterPossible == ck.pc = "loop" /\ ck.st.start < Len(ck.text) /\ Len(ck.st.chunks) < MaxIter
ReturnPossible == ck.pc = "loop" /\ ~(ck.st.start < Len(ck.text))
FairLoop ==
    /\ \/ []<>(~IterPossible)
       \/ []<><<ChunkIter>>_vars
    /\ \/ []<>(~ReturnPossible)
       \/ []<><<ChunkReturn>>_vars
SpecChunkFair == SpecChunk /\ FairLoop

\* --------------------------------------------------------- Hybrid Retriever
\* Scores are float in the source.  They are kept here as exact fractions
\* num/den with den > 0, or as one of the three IEEE values float('inf')
\* arithmetic yields: +inf, -inf and nan.
Fin(num, den) == [kind |-> "fin", num |-> num, den |-> den]
Inf == [kind |-> "inf", num |-> 0, den |-> 1]
NegInf == [kind |-> "-inf", num |-> 0, den |-> 1]
NaN == [kind |-> "nan", num |-> 0, den |-> 1]

\* a < b on floats; every comparison with nan is false.
ScoreLess(a, b) ==
    /\ a.kind # "nan"
    /\ b.kind # "nan"
    /\ \/ a.kind = "-inf" /\ b.kind # "-inf"
       \/ b.kind = "inf" /\ a.kind # "inf"
       \/ a.kind = "fin" /\ b.kind = "fin" /\ a.num * b.den < b.num * a.den

\* a * f for a finite factor f: inf * 0 is nan, inf * negative is -inf.
ScoreTimes(a, f) ==
    IF a.kind = "fin" THEN Fin(a.num * f.num, a.den * f.den)
    ELSE IF a.kind = "nan" \/ f.num = 0 THEN NaN
    ELSE IF (a.kind = "inf") = (f.num > 0) THEN Inf
    ELSE NegInf

\* str.lower() and the class \w of re, on the characters of the model's texts.
LowerChar(c) == IF c = "A" THEN "a" ELSE IF c = "B" THEN "b" ELSE c
lower(s) == [i \in 1..Len(s) |-> LowerChar(s[i])]
IsWordChar(c) == c \in {"a", "b", "A", "B"}

\* set(re.findall(r'\w+', s)): the maximal runs of word characters of s.
WordStarts(s) == {i \in 1..Len(s) : IsWordChar(s[i]) /\ (i = 1 \/ ~IsWordChar(s[i - 1]))}
\* The last character of the run of word characters that starts at i.
RECURSIVE RunEnd(_, _)
RunEnd(s, i) == IF i < Len(s) /\ IsWordChar(s[i + 1]) THEN RunEnd(s, i + 1) ELSE i
findall_words(s) == {SubSeq(s, i, RunEnd(s, i)) : i \in WordStarts(s)}

\* `term in text` on str.
Contains(term, text) ==
    \E i \in 1..(Len(text) - Len(term) + 1) : SubSeq(text, i, i + Len(term) - 1) = term

\* hybrid_retriever.py 19-20: the query's terms.
query_terms(query) == {term \in findall_words(lower(query)) : Len(term) > 3}

\* hybrid_retriever.py 37-38: how many of the terms the chunk's text holds.
term_score(terms, text) == Cardinality({term \in terms : Contains(term, lower(text))})

\* A variant of sorted below that leaves the order as it is.
sorted_as_given(s, keys) == s

\* sorted(s, key=...): a stable sort; `keys` are the keys of s's elements.  An
\* element goes after those with a smaller key and after the earlier ones
\* with an equal key.
sorted(s, keys) ==
    LET before(i) == {j \in 1..Len(s) : \/ ScoreLess(keys[j], keys[i])
                                        \/ ~ScoreLess(keys[i], keys[j]) /\ j < i}
    IN [p \in 1..Len(s) |-> s[CHOOSE i \in 1..Len(s) : Cardinality(before(i)) = p - 1]]

\* The subsequence of s of the elements at the positions in P.
RECURSIVE SelectAt(_, _, _)
SelectAt(s, P, i) ==
    IF i > Len(s) THEN <<>>
    ELSE (IF i \in P THEN <<s[i]>> ELSE <<>>) \o SelectAt(s, P, i + 1)

\* HybridRetriever._keyword_search.  `listing` is os.listdir(chunks_dir), the
\* chunk ids of the files in the order the system lists them.
_keyword_search(dir, listing, query, top_k) ==
    LET terms == query_terms(query)
        scores == [i \in 1..Len(listing) |-> term_score(terms, dir[listing[i]].text)]
        chunk_scores ==
            SelectAt([i \in 1..Len(listing) |->
                         [chunk_id |-> dir[listing[i]].chunk_id,
                          metadata |-> dir[listing[i]].metadata,
                          score |-> scores[i]]],
                     {i \in 1..Len(listing) : scores[i] > 0}, 1)
    IN IF terms = {} THEN <<>>
       ELSE PySlice(sorted(chunk_scores,
                           [i \in 1..Len(chunk_scores) |-> Fin(-chunk_scores[i].score, 1)]),
                    0, top_k)

\* A variant of search below that takes every vector found, not the first
\* top_k of them.
search_not_capped(ix, hits, top_k) ==
    LET results == [i \in 1..Len(hits) |->
                       IF hits[i].idx \in DOMAIN ix.id_to_chunk
                       THEN [chunk_id |-> ix.id_to_chunk[hits[i].idx].chunk_id,
                             metadata |-> ix.id_to_chunk[hits[i].idx].metadata,
                             score |-> hits[i].distance]
                       ELSE None]
    IN SelectAt(results, {i \in 1..Len(hits) : hits[i].idx \in DOMAIN ix.id_to_chunk}, 1)
\* VectorIndexer.search.  `hits` is what index.search finds: the vectors of
\* the index in ascending distance from the query's embedding, as records
\* [idx, distance]; faiss returns the first top_k and pads with -1.
search(ix, hits, top_k) ==
    LET found == PySlice(hits, 0, top_k)
        results == [i \in 1..Len(found) |->
                       IF found[i].idx \in DOMAIN ix.id_to_chunk
                       THEN [chunk_id |-> ix.id_to_chunk[found[i].idx].chunk_id,
                             metadata |-> ix.id_to_chunk[found[i].idx].metadata,
                             score |-> found[i].distance]
                       ELSE None]
    IN SelectAt(results, {i \in 1..Len(found) : found[i].idx \in DOMAIN ix.id_to_chunk}, 1)

\* len(chunk_id) of f"doc_{str(n).zfill(3)}_chunk_{str(chunk_num).zfill(3)}".
RECURSIVE Digits(_)
Digits(n) == IF n < 10 THEN 1 ELSE 1 + Digits(n \div 10)
chunk_id_len(chunk_id) == 4 + Max(3, Digits(chunk_id[1])) + 7 + Max(3, Digits(chunk_id[2]))
\* A question of this many terms, all found in a segment of one of the first
\* 999 documents, gives the segment the keyword score 1.
FullScoreTerms == chunk_id_len(<<1, 0>>)

\* combined_results is a dict: a sequence of entries in insertion order, one
\* per chunk id.  d[key] = entry keeps the place of a key already present.
dict_position(d, chunk_id) ==
    IF \E i \in 1..Len(d) : d[i].chunk_id = chunk_id
    THEN CHOOSE i \in 1..Len(d) : d[i].chunk_id = chunk_id
    ELSE 0
dict_set(d, entry) ==
    LET i == dict_position(d, entry.chunk_id)
    IN IF i = 0 THEN Append(d, entry) ELSE [d EXCEPT ![i] = entry]

\* hybrid_retriever.py 66-74: the semantic results seed the entries.
RECURSIVE add_semantic(_, _, _)
add_semantic(d, semantic_results, i) ==
    IF i > Len(semantic_results) THEN d
    ELSE add_semantic(dict_set(d, [chunk_id |-> semantic_results[i].chunk_id,
                                   metadata |-> semantic_results[i].metadata,
                                   semantic_score |-> semantic_results[i].score,
                                   keyword_score |-> Fin(0, 1),
                                   combined_score |-> semantic_results[i].score]),
                      semantic_results, i + 1)

\* A variant of discount below that ignores the keyword score.
discount_none(keyword_score) == Fin(1, 1)
\* 1 - 0.3 * keyword_score
discount(keyword_score) ==
    Fin(10 * keyword_score.den - 3 * keyword_score.num, 10 * keyword_score.den)

\* A variant of add_keyword below that takes nothing from the lexical pass.
add_keyword_nothing(d, keyword_results, i) == d

\* hybrid_retriever.py 77-94: the keyword results update or add entries.
RECURSIVE add_keyword(_, _, _)
add_keyword(d, keyword_results, i) ==
    IF i > Len(keyword_results) THEN d
    ELSE LET r == keyword_results[i]
             keyword_score == Fin(r.score, Max(1, chunk_id_len(r.chunk_id)))
             at == dict_position(d, r.chunk_id)
         IN add_keyword(
                IF at # 0
                THEN [d EXCEPT ![at].keyword_score = keyword_score,
                               ![at].combined_score =
                                   ScoreTimes(d[at].semantic_score, discount(keyword_score))]
                ELSE Append(d, [chunk_id |-> r.chunk_id,
                                metadata |-> r.metadata,
                                semantic_score |-> Inf,
                                keyword_score |-> keyword_score,
                                combined_score |-> ScoreTimes(Inf, discount(keyword_score))]),
                keyword_results, i + 1)

\* hybrid_retriever.py 62-94: the merged entries of a hybrid retrieval.
combined_results(R, dir, listing, hits, query, top_k) ==
    add_keyword(add_semantic(<<>>, search(R, hits, top_k * 2), 1),
                _keyword_search(dir, listing, query, top_k * 2), 1)

\* HybridRetriever.retrieve
retrieve(R, dir, listing, hits, query, top_k, use_hybrid) ==
    IF ~use_hybrid THEN PySlice(search(R, hits, top_k * 2), 0, top_k)
    ELSE LET combined == combined_results(R, dir, listing, hits, query, top_k)
             results == PySlice(sorted(combined,
                                       [i \in 1..Len(combined) |-> combined[i].combined_score]),
                                0, top_k)
         IN [i \in 1..Len(results) |->
                [chunk_id |-> results[i].chunk_id,
                 metadata |-> results[i].metadata,
                 score |-> results[i].combined_score]]

\* HybridRetriever.get_chunk_text
get_chunk_text(dir, chunk_id) ==
    IF chunk_id \notin DOMAIN dir THEN <<None>> ELSE dir[chunk_id].text

\* HybridRetriever.retrieve_with_context
retrieve_with_context(R, dir, listing, hits, query, top_k) ==
    LET results == retrieve(R, dir, listing, hits, query, top_k, TRUE)
    IN [i \in 1..Len(results) |->
           Merge(results[i], [text |-> get_chunk_text(dir, results[i].chunk_id)])]

\* ------------------------------------------------- retrieval over a filled store
\* The terms of the queries: "aaaa", "aaaaa", ... ; the n-th has n + 3 letters.
Term(n) == Rep("a", n + 3)
RECURSIVE JoinTerms(_)
JoinTerms(n) ==
    IF n = 0 THEN <<>>
    ELSE IF n = 1 THEN Term(1)
    ELSE JoinTerms(n - 1) \o <<" ">> \o Term(n)
\* A question of n terms; it starts with a capital.
QueryOf(n) == [JoinTerms(n) EXCEPT ![1] = "A"]
\* A question of short words only, as "if it is".
ShortQuery == <<"a", "b", " ", "A", "b", " ", "a", "b", "a">>
Queries == {<<>>, ShortQuery, QueryOf(1), QueryOf(FullScoreTerms), QueryOf(MaxTerms)}

\* The segments of the stores: of document 1 a text without any term, of
\* document 2 one with the first FullScoreTerms terms, of document 3 one with all
\* MaxTerms terms, of document 100000 one with the first four.
Segment(d, text) ==
    [chunk_id |-> <<d, 0>>, text |-> text,
     metadata |-> [document_id |-> d, section |-> find_section(text), chunk_num |-> 0]]
SegA == Segment(1, Rep("b", 4))
SegB == Segment(2, Term(FullScoreTerms))
SegC == Segment(100000, Term(4))
SegD == Segment(3, Term(MaxTerms))

\* The stores a retriever is constructed over: the files of the chunks
\* directory and, in the order of their entry ids, the chunks the persisted
\* index holds.  A chunk file without an entry is what an ingest leaves that
\* failed at the index, or a lost index; two entries of one chunk are what the
\* second ingest of a changed document leaves.
Stores ==
    {[files |-> {}, indexed |-> <<>>],
     [files |-> {SegA, SegB, SegC}, indexed |-> <<SegA, SegB>>],
     [files |-> {SegA, SegB, SegC}, indexed |-> <<SegC, SegB, SegA>>],
     [files |-> {SegA, SegB, SegC}, indexed |-> <<>>],
     [files |-> {SegA, SegB, SegD}, indexed |-> <<SegA, SegB>>],
     [files |-> {SegA, SegB}, indexed |-> <<SegA, SegB, SegA>>]}

\* The index after the chunks `indexed` were inserted and saved.
NoIndex ==
    [index |-> <<>>, id_to_chunk |-> EmptyDict, next_id |-> 0,
     index_file |-> NoFile, map_file |-> NoFile, issued |-> <<>>]
StoredIndex(indexed) ==
    IF indexed = <<>> THEN NoIndex
    ELSE _save_index(insert_entries(NoIndex, ChunkData(indexed)), NoFault)

\* The state after the construction of BizBrainCLI over the directories of a
\* store.
InitRetrieve ==
    \E store \in Stores :
        LET ix == StoredIndex(store.indexed)
        IN /\ raw_documents = [f \in Files |-> <<>>]
           /\ registry = NewRegistry
           /\ registry_file = NewRegistry
           /\ chunker_registry = NewRegistry
           /\ full_text = EmptyDict
           /\ chunk_files = [c \in {s.chunk_id : s \in store.files} |->
                                CHOOSE s \in store.files : s.chunk_id = c]
           /\ index = ix.index
           /\ id_to_chunk = ix.id_to_chunk
           /\ next_id = ix.next_id
           /\ index_file = ix.index_file
           /\ map_file = ix.map_file
           /\ issued = ix.issued
           /\ result = [op |-> "__init__", printed |-> <<>>]
           /\ calls = 0
           /\ chunk_size = CHUNK_SIZE
           /\ chunk_overlap = CHUNK_OVERLAP
           /\ ck = IdleChunker
           /\ save_run = IdleSave
           /\ reader = NoReader
           /\ ingest = NoIngest
           /\ retriever = LoadedIndex(ix)
           /\ batch_run = IdleRun
           /\ returned_batch_ids = <<>>

\* The distances of the vectors found, in tenths, nearest first.
DistanceProfiles == {<<1, 5, 9>>, <<1, 1, 5>>, <<0, 5, 5>>}
\* What index.search can find in the retriever's index: its vectors in any
\* order of distance from the query.
Rankings(R) ==
    {[i \in 1..Len(R.index) |-> [idx |-> R.index[p[i]], distance |-> Fin(ds[i], 10)]] :
        p \in Perms(1..Len(R.index)), ds \in DistanceProfiles}
\* The orders in which os.listdir lists the chunk files.
Listings(dir) == Perms(DOMAIN dir)

\* result['score'] = ... is set on a copy of the map's entry (search copies
\* it, retrieve builds new dicts): the map keeps its entries.
map_after_search_no_copy(m, found) ==
    [id \in DOMAIN m |->
        IF \E i \in 1..Len(found) : found[i].idx = id
        THEN Merge(m[id], [score |-> (CHOOSE h \in {found[i] : i \in 1..Len(found)} :
                                         h.idx = id).distance])
        ELSE m[id]]
map_after_search(m, found) == m

\* HybridRetriever.retrieve.  Nothing in it raises over an existing chunks
\* directory and a loaded index: an index without vectors answers a search
\* with ids -1.
Retrieve(listing, hits, query, top_k, use_hybrid) ==
    /\ calls < MaxQueries
    /\ calls' = calls + 1
    /\ result' = [op |-> "retrieve", query |-> query, top_k |-> top_k,
                  use_hybrid |-> use_hybrid, listing |-> listing, hits |-> hits,
                  raised |-> FALSE,
                  returned |-> retrieve(retriever, chunk_files, listing, hits, query,
                                        top_k, use_hybrid)]
    /\ retriever' = [retriever EXCEPT !.id_to_chunk =
                        map_after_search(@, PySlice(hits, 0, top_k * 2))]
    /\ UNCHANGED <<raw_documents, registry_vars, file_vars, index_vars, chunker_vars, io_vars,
                   run_vars>>

\* HybridRetriever.retrieve_with_context
RetrieveWithContext(listing, hits, query, top_k) ==
    /\ calls < MaxQueries
    /\ calls' = calls + 1
    /\ result' = [op |-> "retrieve_with_context", query |-> query, top_k |-> top_k,
                  use_hybrid |-> TRUE, listing |-> listing, hits |-> hits,
                  raised |-> FALSE,
                  returned |-> retrieve_with_context(retriever, chunk_files, listing, hits,
                                                     query, top_k)]
    /\ retriever' = [retriever EXCEPT !.id_to_chunk =
                        map_after_search(@, PySlice(hits, 0, top_k * 2))]
    /\ UNCHANGED <<raw_documents, registry_vars, file_vars, index_vars, chunker_vars, io_vars,
                   run_vars>>

NextRetrieve ==
    \/ /\ calls < MaxQueries
       /\ \E listing \in Listings(chunk_files), hits \in Rankings(retriever),
             query \in Queries, top_k \in 1..MaxTopK, use_hybrid \in BOOLEAN :
              Retrieve(listing, hits, query, top_k, use_hybrid)
    \/ /\ calls < MaxQueries
       /\ \E listing \in Listings(chunk_files), hits \in Rankings(retriever),
             query \in Queries, top_k \in 1..MaxTopK :
              RetrieveWithContext(listing, hits, query, top_k)

SpecRetrieve == InitRetrieve /\ [][NextRetrieve]_vars

\* ------------------------------------------------- a batch run of the CLI
\* DocumentLoader.get_unprocessed_documents: the raw files without a record
\* or with another md5 than the recorded one.
get_unprocessed_documents(reg, raw) ==
    {f \in DOMAIN raw : \/ f \notin DOMAIN reg.documents
                        \/ reg.documents[f].md5_hash # _calculate_md5(raw[f])}

\* The sequences of distinct files taken from S, in any order.
Selections(S) ==
    {sel \in UNION {[1..n -> S] : n \in 0..Cardinality(S)} :
        \A i, j \in 1..Len(sel) : sel[i] = sel[j] => i = j}

\* A variant of run_after below in which a failure ends the loop.
run_after_stop_at_failure(run, filename, r) ==
    [run EXCEPT !.i = IF r.success THEN @ + 1 ELSE Len(run.selected) + 1,
                !.processed_docs = IF r.success
                                   THEN Append(@, <<r.doc_id, filename, r.chunk_count>>)
                                   ELSE @,
                !.failed_docs = IF r.success THEN @ ELSE Append(@, <<filename, r.error_msg>>),
                !.outcomes = Append(@, <<filename, r.success>>)]

\* cli.py 368-378: the locals of the run after fully_process_document has
\* returned r for `filename`; the loop goes on to the next file.  outcomes is
\* history: the calls made, in order, and whether they succeeded.
run_after(run, filename, r) ==
    [run EXCEPT !.i = @ + 1,
                !.processed_docs = IF r.success
                                   THEN Append(@, <<r.doc_id, filename, r.chunk_count>>)
                                   ELSE @,
                !.failed_docs = IF r.success THEN @ ELSE Append(@, <<filename, r.error_msg>>),
                !.outcomes = Append(@, <<filename, r.success>>)]

\* BizBrainCLI.batch_process_documents up to its loop (cli.py 307-362): the
\* user gives a valid date and selects files among the unprocessed ones, in
\* the order they are listed; a batch is created.  With nothing selected the
\* method returns; an error of create_batch leaves the method.
BatchProcessStart(selected, effective_date, fault) ==
    LET r == create_batch(LoaderState, effective_date, fault)
    IN /\ batch_run.pc = "idle"
       /\ calls < MaxCalls
       /\ validate_date_format(effective_date)
       /\ selected \in Selections(get_unprocessed_documents(registry, raw_documents))
       /\ fault.kind \in {"none", "registry_save"}
       /\ calls' = calls + 1
       /\ IF selected = <<>>
          THEN /\ batch_run' = [IdleRun EXCEPT !.pc = "done"]
               /\ result' = [op |-> "batch_process_documents", raised |-> None]
               /\ UNCHANGED <<registry, registry_file, full_text, returned_batch_ids>>
          ELSE /\ SetLoader(r)
               /\ result' = [op |-> "batch_process_documents", raised |-> r.raised]
               /\ returned_batch_ids' = IF r.raised = None
                                        THEN Append(returned_batch_ids, r.batch_id)
                                        ELSE returned_batch_ids
               /\ batch_run' = IF r.raised # None
                               THEN [IdleRun EXCEPT !.pc = "done", !.selected = selected]
                               ELSE [IdleRun EXCEPT !.pc = "loop", !.selected = selected,
                                                    !.i = 1, !.batch_id = r.batch_id,
                                                    !.effective_date = effective_date]
       /\ UNCHANGED <<raw_documents, chunker_registry, chunk_files, index_vars, chunker_vars, io_vars,
                      retriever_vars>>

\* One iteration of the loop of batch_process_documents (cli.py 368-378).
BatchProcessStep(fault) ==
    /\ batch_run.pc = "loop"
    /\ batch_run.i <= Len(batch_run.selected)
    /\ FullyProcess(batch_run.selected[batch_run.i], batch_run.batch_id,
                    batch_run.effective_date, fault)
    /\ batch_run' = run_after(batch_run, batch_run.selected[batch_run.i], result')
    /\ UNCHANGED returned_batch_ids

\* The loop is over: the report is printed and the method returns.
BatchProcessEnd ==
    /\ batch_run.pc = "loop"
    /\ batch_run.i > Len(batch_run.selected)
    /\ batch_run' = [batch_run EXCEPT !.pc = "done"]
    /\ result' = [op |-> "batch_process_documents", raised |-> None]
    /\ UNCHANGED <<raw_documents, registry_vars, file_vars, index_vars, calls, chunker_vars, io_vars,
                   retriever_vars, returned_batch_ids>>

NextRun ==
    \/ \E selected \in Selections(Files), d \in Dates, fault \in LoaderFaults :
           BatchProcessStart(selected, d, fault)
    \/ \E fault \in Faults : BatchProcessStep(fault)
    \/ BatchProcessEnd

SpecRun == Init /\ [][NextRun]_vars

\* ------------------------------------------- the vector index over a store
\* The index after the chunks were inserted into ix and the save met `fault`.
Inserted(ix, chunks, fault) == _save_index(insert_entries(ix, ChunkData(chunks)), fault)

\* The two files of vector_store/ a VectorIndexer is constructed over: none,
\* a saved pair, what a save leaves that stopped between the index file and
\* the map file (after an earlier save, and as the first save), one file
\* removed, and files damaged or of another format.
Disks ==
    LET full == StoredIndex(<<SegA, SegB, SegC>>)
        torn == Inserted(StoredIndex(<<SegA>>), <<SegB, SegC>>, Fault("save_map", 0))
        first == Inserted(NoIndex, <<SegA, SegB>>, Fault("save_map", 0))
        flat == DamagedFile(full.index_file[1], "IndexFlatL2")
    IN {[index_file |-> NoFile, map_file |-> NoFile],
        [index_file |-> full.index_file, map_file |-> full.map_file],
        [index_file |-> torn.index_file, map_file |-> torn.map_file],
        [index_file |-> first.index_file, map_file |-> first.map_file],
        [index_file |-> NoFile, map_file |-> full.map_file],
        [index_file |-> DamagedFile(full.index_file[1], "corrupt"), map_file |-> full.map_file],
        [index_file |-> full.index_file, map_file |-> DamagedFile(full.map_file[1], "corrupt")],
        [index_file |-> full.index_file, map_file |-> DamagedFile(full.map_file[1], "keys")],
        [index_file |-> flat, map_file |-> full.map_file],
        [index_file |-> flat, map_file |-> DamagedFile(full.map_file[1], "corrupt")]}

\* The state after the construction of BizBrainCLI over the files of a disk.
InitIndex ==
    \E disk \in Disks :
        LET files == [NoIndex EXCEPT !.index_file = disk.index_file,
                                     !.map_file = disk.map_file]
            ix == _load_or_create_index(files)
        IN /\ raw_documents = [f \in Files |-> <<>>]
           /\ registry = NewRegistry
           /\ registry_file = NewRegistry
           /\ chunker_registry = NewRegistry
           /\ full_text = EmptyDict
           /\ chunk_files = EmptyDict
           /\ index = ix.index
           /\ id_to_chunk = ix.id_to_chunk
           /\ next_id = ix.next_id
           /\ index_file = ix.index_file
           /\ map_file = ix.map_file
           /\ issued = ix.issued
           /\ result = [op |-> "__init__", printed |-> load_printed(files)]
           /\ calls = 0
           /\ chunk_size = CHUNK_SIZE
           /\ chunk_overlap = CHUNK_OVERLAP
           /\ ck = IdleChunker
           /\ save_run = IdleSave
           /\ reader = NoReader
           /\ ingest = NoIngest
           /\ retriever = LoadedIndex(ix)
           /\ batch_run = IdleRun
           /\ returned_batch_ids = <<>>

\* VectorIndexer.search; hits is what index.search finds, nearest first.
Search(hits, top_k) ==
    /\ calls < MaxQueries
    /\ calls' = calls + 1
    /\ result' = [op |-> "search", top_k |-> top_k, hits |-> hits,
                  returned |-> search(IndexState, hits, top_k)]
    /\ UNCHANGED <<raw_documents, registry_vars, file_vars, index_vars, chunker_vars, io_vars,
                   retriever_vars, run_vars>>

NextIndex ==
    \/ /\ calls < MaxQueries
       /\ \E hits \in Rankings(IndexState), top_k \in 1..MaxTopK : Search(hits, top_k)
    \/ \E nm \in {<<0, 0>>, <<1, 2>>, <<2, 2>>}, fault \in IndexerFaults :
           AddEmbeddingsBulk(nm[1], 1, nm[2], fault)
    \/ Restart

SpecIndex == InitIndex /\ [][NextIndex]_vars

\* ------------------------------------------------ ingestion after index loss
\* The files of the vector store are removed or damaged from outside and the
\* process is started again: BizBrainCLI is constructed over the directories,
\* and _load_or_create_index finds nothing it can load.
IndexLoss(how) ==
    LET files == [IndexState EXCEPT
                     !.index_file = IF how = "removed" THEN NoFile
                                    ELSE DamagedFile(index_file[1], "corrupt"),
                     !.map_file = IF how = "removed" THEN NoFile ELSE map_file]
        ix == _load_or_create_index(files)
    IN /\ calls < MaxCalls
       /\ batch_run.pc # "loop"
       /\ index_file # NoFile /\ IsIntact(index_file) /\ map_file # NoFile
       /\ SetIndex(ix)
       /\ retriever' = LoadedIndex(ix)
       /\ result' = [op |-> "__init__", printed |-> load_printed(files)]
       /\ registry' = registry_file
       /\ chunker_registry' = registry_file
       /\ batch_run' = IdleRun
       /\ UNCHANGED <<raw_documents, registry_file, file_vars, calls, chunker_vars, io_vars,
                      returned_batch_ids>>

\* Ingestion, by single calls of fully_process_document and by runs of
\* batch_process_documents, over raw documents that are not modified, with a
\* loss of the index at any time between two operations.  The calls succeed or
\* fail at the embedding or at the Registry write.
RecoverFaults == {NoFault, Fault("embed", 1), Fault("registry_save", 0)}
NextRecover ==
    \/ \E f \in Files, fault \in RecoverFaults :
           /\ batch_run.pc # "loop"
           /\ FullyProcess(f, 1, DateOf(1), fault)
           /\ UNCHANGED run_vars
    \/ \E how \in {"removed", "corrupt"} : IndexLoss(how)
    \/ \E selected \in Selections(Files), fault \in {NoFault} :
           BatchProcessStart(selected, DateOf(2), fault)
    \/ \E fault \in RecoverFaults : BatchProcessStep(fault)
    \/ BatchProcessEnd

\* The raw documents of these runs have a text of one segment.
InitRecover ==
    /\ raw_documents \in [Files -> {Rep("a", 1), Rep("a", CHUNK_SIZE)}]
    /\ InitPipeline
    /\ chunk_size = CHUNK_SIZE
    /\ chunk_overlap = CHUNK_OVERLAP
    /\ ck = IdleChunker
    /\ save_run = IdleSave
    /\ reader = NoReader
    /\ ingest = NoIngest

\* The loop of a run has a file left to call fully_process_document with.
\* The call can always be made, so this is when an iteration is enabled.
RunStepPossible ==
    /\ batch_run.pc = "loop"
    /\ batch_run.i <= Len(batch_run.selected)
    /\ calls < MaxCalls

\* Ingestion is run again, and a run that was started goes on: it is weakly
\* fair to start a run, to take an iteration of its loop and to return.
FairRun ==
    /\ WF_vars(\E selected \in Selections(Files) :
                   BatchProcessStart(selected, DateOf(2), NoFault))
    /\ \/ []<>(~RunStepPossible)
       \/ []<><<\E fault \in RecoverFaults : BatchProcessStep(fault)>>_vars
    /\ WF_vars(BatchProcessEnd)

SpecRecover == InitRecover /\ [][NextRecover]_vars /\ FairRun

\* ------------------------------------------------- questions during ingestion
\* BizBrainCLI.answer_question up to the call of the answer generator: the
\* chunks it retrieves are what the answer is generated from.  The retriever
\* is the one constructed with the CLI; it reads the chunks directory at each
\* question and searches the index it loaded at construction.
AnswerQuestion(listing, hits, question, top_k) ==
    LET retrieved_chunks == retrieve_with_context(retriever, chunk_files, listing, hits,
                                                  question, top_k)
    IN /\ calls < MaxCalls
       /\ calls' = calls + 1
       /\ result' = [op |-> "answer_question", question |-> question, top_k |-> top_k,
                     retrieved_chunks |-> retrieved_chunks,
                     printed |-> IF retrieved_chunks = <<>>
                                 THEN "No relevant information found."
                                 ELSE "Generating answer..."]
       /\ retriever' = [retriever EXCEPT !.id_to_chunk =
                           map_after_search(@, PySlice(hits, 0, top_k * 2))]
       /\ UNCHANGED <<raw_documents, registry_vars, file_vars, index_vars, chunker_vars, io_vars,
                      run_vars>>

\* The raw documents of these runs hold one term of a question or a single
\* letter, and the window is scaled to the term, so that a segment can match
\* a question by its words.
ServeWindow == Len(Term(1))
InitServe ==
    /\ raw_documents \in [Files -> {Term(1), Rep("a", 1)}]
    /\ InitPipeline
    /\ chunk_size = ServeWindow
    /\ chunk_overlap = CHUNK_OVERLAP
    /\ ck = IdleChunker
    /\ save_run = IdleSave
    /\ reader = NoReader
    /\ ingest = NoIngest

\* Ingestion that succeeds or fails at the embedding, at one of the index
\* files or at the Registry write, restarts of the process, and questions.
ServeFaults ==
    {NoFault, Fault("embed", 1), Fault("save_index", 0), Fault("save_map", 0),
     Fault("registry_save", 0)}
NextServe ==
    \/ \E f \in Files, fault \in ServeFaults :
           FullyProcess(f, 1, DateOf(1), fault) /\ UNCHANGED run_vars
    \/ Restart
    \/ /\ calls < MaxCalls
       /\ \E listing \in Listings(chunk_files), hits \in Rankings(retriever),
             question \in {QueryOf(1), ShortQuery}, top_k \in {1, MaxTopK} :
              AnswerQuestion(listing, hits, question, top_k)

SpecServe == InitServe /\ [][NextServe]_vars

\* ------------------------------------------- the files while they are saved
\* _save_registry and _save_index write their files in place, with
\* open(path, 'w') and faiss.write_index(index, path): the file is truncated
\* when it is opened, grows while the content is dumped into it, and is
\* complete when it is closed.  Here create_batch and add_embeddings_bulk are
\* followed through these steps, and a second process (another BizBrainCLI
\* over the same directories) loads the files at any time.
\* The Registry file while its content is not complete.
TornRegistry(what) == [torn |-> what]
\* A file of vector_store/ while its content is not complete: its bytes do
\* not parse.
TornFile(written) == DamagedFile(written, "corrupt")

\* create_batch has added the batch to the registry it holds, and
\* _save_registry has opened the Registry file.
SaveRegistryOpen(effective_date) ==
    /\ calls < MaxCalls
    /\ save_run.pc = "idle"
    /\ registry' = create_batch(LoaderState, effective_date, NoFault).registry
    /\ registry_file' = TornRegistry("empty")
    /\ save_run' = [pc |-> "registry_open", old |-> registry_file]
    /\ UNCHANGED <<raw_documents, chunker_registry, file_vars, index_vars, call_vars,
                   chunker_vars, retriever_vars, run_vars, reader, ingest>>

\* json.dump has written a part of the registry.
SaveRegistryWrite ==
    /\ save_run.pc = "registry_open"
    /\ registry_file' = TornRegistry("partial")
    /\ save_run' = [save_run EXCEPT !.pc = "registry_partial"]
    /\ UNCHANGED <<raw_documents, registry, chunker_registry, file_vars, index_vars,
                   call_vars, chunker_vars, retriever_vars, run_vars, reader, ingest>>

\* json.dump has written the rest, the file is closed and create_batch
\* returns the batch id.
SaveRegistryClose ==
    /\ save_run.pc = "registry_partial"
    /\ registry_file' = registry
    /\ save_run' = IdleSave
    /\ calls' = calls + 1
    /\ result' = [op |-> "create_batch", raised |-> None,
                  batch_id |-> registry.total_batches]
    /\ returned_batch_ids' = Append(returned_batch_ids, registry.total_batches)
    /\ UNCHANGED <<raw_documents, registry, chunker_registry, file_vars, index_vars,
                   chunker_vars, retriever_vars, batch_run, reader, ingest>>

\* add_embeddings_bulk has inserted the vectors and the map entries, and
\* _save_index has opened the index file.
SaveIndexOpen(chunks) ==
    LET ix == insert_entries(IndexState, ChunkData(chunks))
    IN /\ calls < MaxCalls
       /\ save_run.pc = "idle"
       /\ SetIndex([ix EXCEPT !.index_file = TornFile(<<>>)])
       /\ save_run' = [pc |-> "index_open", old |-> index_file]
       /\ UNCHANGED <<raw_documents, registry_vars, file_vars, call_vars, chunker_vars,
                      retriever_vars, run_vars, reader, ingest>>

\* The file that is being written has a part of its content, and then all of it.
SaveIndexWrite ==
    /\ save_run.pc = "index_open"
    /\ index_file' = TornFile(index)
    /\ save_run' = [save_run EXCEPT !.pc = "index_partial"]
    /\ UNCHANGED <<raw_documents, registry_vars, file_vars, index, id_to_chunk, next_id,
                   map_file, issued, call_vars, chunker_vars, retriever_vars, run_vars,
                   reader, ingest>>

\* faiss.write_index returns, and the map file is opened.
SaveMapOpen ==
    /\ save_run.pc = "index_partial"
    /\ index_file' = FileOf(index)
    /\ map_file' = TornFile(<<>>)
    /\ save_run' = [pc |-> "map_open", old |-> map_file]
    /\ UNCHANGED <<raw_documents, registry_vars, file_vars, index, id_to_chunk, next_id,
                   issued, call_vars, chunker_vars, retriever_vars, run_vars, reader, ingest>>

SaveMapWrite ==
    /\ save_run.pc = "map_open"
    /\ map_file' = TornFile(id_to_chunk)
    /\ save_run' = [save_run EXCEPT !.pc = "map_partial"]
    /\ UNCHANGED <<raw_documents, registry_vars, file_vars, index, id_to_chunk, next_id,
                   index_file, issued, call_vars, chunker_vars, retriever_vars, run_vars,
                   reader, ingest>>

\* The map file is closed and add_embeddings_bulk returns True.
SaveMapClose ==
    /\ save_run.pc = "map_partial"
    /\ map_file' = FileOf(id_to_chunk)
    /\ save_run' = IdleSave
    /\ calls' = calls + 1
    /\ result' = [op |-> "add_embeddings_bulk", raised |-> None, ret |-> TRUE]
    /\ UNCHANGED <<raw_documents, registry_vars, file_vars, index, id_to_chunk, next_id,
                   index_file, issued, chunker_vars, retriever_vars, run_vars, reader, ingest>>

\* DocumentLoader._load_registry over an existing file: json.load returns its
\* content or raises.
_load_registry(file) ==
    IF "torn" \in DOMAIN file
    THEN [raised |-> "JSONDecodeError", registry |-> None]
    ELSE [raised |-> None, registry |-> file]

\* A second process is started: DocumentLoader reads the Registry file and
\* VectorIndexer the files of the vector store, as they are at that time.
ReaderLoads ==
    LET ix == _load_or_create_index(IndexState)
    IN /\ reader' = [op |-> "__init__",
                     registry_file |-> registry_file,
                     index_file |-> index_file,
                     map_file |-> map_file,
                     loader |-> _load_registry(registry_file),
                     indexer |-> LoadedIndex(ix),
                     printed |-> load_printed(IndexState)]
       /\ UNCHANGED <<raw_documents, registry_vars, file_vars, index_vars, call_vars,
                      chunker_vars, retriever_vars, run_vars, save_run, ingest>>

InitWrite ==
    /\ raw_documents = [f \in Files |-> <<>>]
    /\ InitPipeline
    /\ chunk_size = CHUNK_SIZE
    /\ chunk_overlap = CHUNK_OVERLAP
    /\ ck = IdleChunker
    /\ save_run = IdleSave
    /\ reader = NoReader
    /\ ingest = NoIngest

NextWrite ==
    \/ \E d \in Dates : SaveRegistryOpen(d)
    \/ SaveRegistryWrite
    \/ SaveRegistryClose
    \/ \E chunks \in {<<SegA>>, <<SegB, SegC>>} : SaveIndexOpen(chunks)
    \/ SaveIndexWrite
    \/ SaveMapOpen
    \/ SaveMapWrite
    \/ SaveMapClose
    \/ ReaderLoads

SpecWrite == InitWrite /\ [][NextWrite]_vars

\* ------------------------------------------- two instances ingest at a time
\* Two BizBrainCLI instances were constructed over the same directories and
\* loaded the same Registry and index.  Each ingests one new document with
\* fully_process_document, which is followed through its writes; the steps of
\* the two calls interleave in any way.  No step takes a lock.
Instances == 1..2
\* What an instance works on: the registry and the index it holds in memory.
\* They were loaded at construction and nothing reads the files again.
instance_state_reloaded(held, disk) == disk
instance_state(held, disk) == held
\* What a construction over the directories would load now.
DiskState ==
    [registry |-> registry_file, ix |-> LoadedIndex(_load_or_create_index(IndexState))]
HeldState(p) == [registry |-> ingest[p].registry, ix |-> ingest[p].ix]
IdleInstance(held) ==
    [pc |-> "idle", filename |-> None, batch_id |-> NoId, registry |-> held.registry,
     ix |-> held.ix, doc_id |-> NoId, chunks |-> <<>>, entry_ids |-> <<>>, success |-> FALSE]

\* Steps 1-3: hash, skip check, extraction, document id, chunks, embeddings.
IngestBegin(p, f, b) ==
    LET mem == instance_state(HeldState(p), DiskState)
    IN /\ ingest[p].pc = "idle"
       /\ \A q \in Instances : ingest[q].filename # f
       /\ ~already_processed(mem.registry, f, _calculate_md5(raw_documents[f]))
       /\ ingest' = [ingest EXCEPT ![p] =
              [@ EXCEPT !.pc = "write_text", !.filename = f, !.batch_id = b,
                        !.registry = mem.registry, !.ix = mem.ix,
                        !.doc_id = assign_document_id(mem.registry, f),
                        !.chunks = fpd_chunks_of(mem.registry, raw_documents[f], f, b,
                                                 DateOf(b), chunk_size, chunk_overlap)]]
       /\ UNCHANGED <<raw_documents, registry_vars, file_vars, index_vars, call_vars,
                      chunker_vars, retriever_vars, run_vars, save_run, reader>>

\* Step 4: the full text is written.
IngestWriteText(p) ==
    /\ ingest[p].pc = "write_text"
    /\ full_text' = Put(full_text, ingest[p].doc_id,
                        extract_document_text(raw_documents[ingest[p].filename]))
    /\ ingest' = [ingest EXCEPT ![p].pc = "write_chunks"]
    /\ UNCHANGED <<raw_documents, registry_vars, chunk_files, index_vars, call_vars,
                   chunker_vars, retriever_vars, run_vars, save_run, reader>>

\* Step 5: the chunk files are written.
IngestWriteChunks(p) ==
    /\ ingest[p].pc = "write_chunks"
    /\ chunk_files' = write_chunks(chunk_files, ingest[p].chunks, Len(ingest[p].chunks))
    /\ ingest' = [ingest EXCEPT ![p].pc = IF ingest[p].chunks = <<>> THEN "save_registry"
                                          ELSE "save_index"]
    /\ UNCHANGED <<raw_documents, registry_vars, full_text, index_vars, call_vars,
                   chunker_vars, retriever_vars, run_vars, save_run, reader>>

\* Step 6, first half: the vectors and the map entries are added to the
\* instance's index under ids from its next_id, and the index file is written.
IngestSaveIndex(p) ==
    LET n == Len(ingest[p].chunks)
        held == ingest[p].ix
        ids == [i \in 1..n |-> held.next_id + i - 1]
        ix == [index |-> held.index \o ids,
               id_to_chunk |-> map_entries(held.id_to_chunk, held.next_id,
                                           ChunkData(ingest[p].chunks), 1),
               next_id |-> held.next_id + n]
    IN /\ ingest[p].pc = "save_index"
       /\ index_file' = FileOf(ix.index)
       /\ ingest' = [ingest EXCEPT ![p] = [@ EXCEPT !.pc = "save_map", !.ix = ix,
                                                    !.entry_ids = ids]]
       /\ UNCHANGED <<raw_documents, registry_vars, file_vars, index, id_to_chunk, next_id,
                      map_file, issued, call_vars, chunker_vars, retriever_vars, run_vars,
                      save_run, reader>>

\* Step 6, second half: the map file is written.
IngestSaveMap(p) ==
    /\ ingest[p].pc = "save_map"
    /\ map_file' = FileOf(ingest[p].ix.id_to_chunk)
    /\ ingest' = [ingest EXCEPT ![p].pc = "save_registry"]
    /\ UNCHANGED <<raw_documents, registry_vars, file_vars, index, id_to_chunk, next_id,
                   index_file, issued, call_vars, chunker_vars, retriever_vars, run_vars,
                   save_run, reader>>

\* Step 7: the record is put into the instance's registry, which is written
\* to the Registry file, and the call returns success.
IngestSaveRegistry(p) ==
    LET me == ingest[p]
        reg == fpd_update_registry(me.registry, me.filename, me.doc_id,
                                   _calculate_md5(raw_documents[me.filename]),
                                   me.batch_id, DateOf(me.batch_id), Len(me.chunks))
    IN /\ me.pc = "save_registry"
       /\ registry_file' = reg
       /\ ingest' = [ingest EXCEPT ![p] = [@ EXCEPT !.pc = "done", !.registry = reg,
                                                    !.success = TRUE]]
       /\ UNCHANGED <<raw_documents, registry, chunker_registry, file_vars, index_vars,
                      call_vars, chunker_vars, retriever_vars, run_vars, save_run, reader>>

InitTwo ==
    /\ raw_documents \in [Files -> {Rep("a", 1), Rep("a", MaxDocLen)}]
    /\ InitPipeline
    /\ chunk_size = CHUNK_SIZE
    /\ chunk_overlap = CHUNK_OVERLAP
    /\ ck = IdleChunker
    /\ save_run = IdleSave
    /\ reader = NoReader
    /\ ingest = [p \in Instances |->
                    IdleInstance([registry |-> NewRegistry,
                                  ix |-> LoadedIndex(NewIndex(NoIndex))])]

NextTwo ==
    \/ \E p \in Instances, f \in Files, b \in BatchIds : IngestBegin(p, f, b)
    \/ \E p \in Instances : IngestWriteText(p)
    \/ \E p \in Instances : IngestWriteChunks(p)
    \/ \E p \in Instances : IngestSaveIndex(p)
    \/ \E p \in Instances : IngestSaveMap(p)
    \/ \E p \in Instances : IngestSaveRegistry(p)

SpecTwo == InitTwo /\ [][NextTwo]_vars

\* ------------------------------------------------- batches over a long session
\* create_batch, fully_process_document into a batch the Registry holds, and
\* delete_empty_batch, called one after the other in one process, without
\* faults, on raw documents that are not replaced.  The calls are those of
\* the actions above, followed for MaxSessionCalls calls.
MaxSessionCalls == 6

SessionCreateBatch(effective_date) ==
    LET r == create_batch(LoaderState, effective_date, NoFault)
    IN /\ calls < MaxSessionCalls
       /\ calls' = calls + 1
       /\ SetLoader(r)
       /\ result' = [op |-> "create_batch", raised |-> r.raised, batch_id |-> r.batch_id]
       /\ returned_batch_ids' = Append(returned_batch_ids, r.batch_id)
       /\ UNCHANGED <<raw_documents, chunker_registry, chunk_files, index_vars, chunker_vars,
                      io_vars, retriever_vars, batch_run>>

SessionDeleteEmptyBatch(batch_id) ==
    LET r == delete_empty_batch(LoaderState, batch_id, NoFault)
    IN /\ calls < MaxSessionCalls
       /\ calls' = calls + 1
       /\ SetLoader(r)
       /\ result' = [op |-> "delete_empty_batch", raised |-> r.raised,
                     success |-> r.success, message |-> r.message]
       /\ UNCHANGED <<raw_documents, chunker_registry, chunk_files, index_vars, chunker_vars,
                      io_vars, retriever_vars, run_vars>>

\* fully_process_document(filename, batch_id, effective_date of the batch),
\* for a batch of the Registry.
SessionFullyProcess(filename, batch_id) ==
    LET content == raw_documents[filename]
        md5_hash == _calculate_md5(content)
        effective_date == registry.batches[batch_id].effective_date
        doc_id == assign_document_id(registry, filename)
        chunks == fpd_chunks_of(registry, content, filename, batch_id, effective_date,
                                chunk_size, chunk_overlap)
        new_reg == fpd_update_registry(registry, filename, doc_id, md5_hash, batch_id,
                                       effective_date, Len(chunks))
    IN /\ calls < MaxSessionCalls
       /\ batch_id \in DOMAIN registry.batches
       /\ calls' = calls + 1
       /\ IF already_processed(registry, filename, md5_hash)
          THEN /\ result' = fpd_result(TRUE, registry.documents[filename].document_id,
                                       Get(registry.documents[filename], "chunk_count", 0),
                                       filename, "none", "Skipping")
               /\ UNCHANGED <<registry_vars, file_vars, index_vars>>
          ELSE /\ result' = fpd_result(TRUE, doc_id, Len(chunks), filename, "none", None)
               /\ full_text' = Put(full_text, doc_id, extract_document_text(content))
               /\ chunk_files' = write_chunks(chunk_files, chunks, Len(chunks))
               /\ SetIndex(fpd_update_index(IndexState, chunks, NoFault))
               /\ registry' = new_reg
               /\ registry_file' = new_reg
               /\ UNCHANGED chunker_registry
       /\ UNCHANGED <<raw_documents, chunker_vars, io_vars, retriever_vars, run_vars>>

NextSession ==
    \/ \E d \in Dates : SessionCreateBatch(d)
    \/ \E f \in Files, b \in 1..3 : SessionFullyProcess(f, b)
    \/ \E b \in 1..3 : SessionDeleteEmptyBatch(b)

SpecSession == Init /\ [][NextSession]_vars

\* ------------------------------------------------------------------- claims
\* A step that is a call of fully_process_document, and a failure result of it
\* whose exception was raised at one of `kinds`.
FpdStep == calls' = calls + 1 /\ result'.op = "fully_process_document"
FpdFailedAt(r, kinds) ==
    r.op = "fully_process_document" /\ ~r.success /\ r.error_msg[3] \in kinds

\* The places of steps 1-6: everything before the registry update of step 7.
Steps1to6 ==
    {"hash", "extract", "embed", "write_text", "write_chunk", "index_add", "save_index",
     "save_map"}


\* C1: when a step among steps 1-6 of fully_process_document raises, the call
\* returns failure and has written no full-text file and no segment file, has
\* left the index's next-id counter and id->metadata map as they were, and has
\* left the Registry (in memory and on disk) as it was.
C1_FailureInSteps1to6LeavesNoTrace ==
    [][(calls' = calls + 1 /\ FpdFailedAt(result', Steps1to6))
          => /\ full_text' = full_text
             /\ chunk_files' = chunk_files
             /\ next_id' = next_id
             /\ id_to_chunk' = id_to_chunk
             /\ registry' = registry
             /\ registry_file' = registry_file]_vars

\* C2: when the embedding of some segment fails, fully_process_document
\* returns failure and has no durable effect and no effect on the index or the
\* Registry: no segment file, full-text file, index entry or Registry entry of
\* the document exists afterwards that did not exist before.
C2_EmbeddingFailureHasNoEffect ==
    [][\A f \in Files, b \in BatchIds, fault \in Faults :
          (FpdStep /\ fault.kind = "embed" /\ FullyProcess(f, b, DateOf(b), fault))
             => /\ result'.success = FALSE
                /\ result'.doc_id = NoId
                /\ UNCHANGED <<registry, registry_file, full_text, chunk_files, index_vars>>
                /\ (f \notin DOMAIN registry.documents => f \notin DOMAIN registry'.documents)
      ]_vars

\* An embedding failure was returned and nothing of any document exists.
C2_witness ==
    /\ FpdFailedAt(result, {"embed"})
    /\ registry.documents = EmptyDict
    /\ full_text = EmptyDict
    /\ chunk_files = EmptyDict
    /\ index = <<>>

\* The file was ingested by fully_process_document and not modified since.
IngestedUnmodified(f) ==
    /\ f \in DOMAIN registry.documents
    /\ "chunk_count" \in DOMAIN registry.documents[f]
    /\ already_processed(registry, f, _calculate_md5(raw_documents[f]))

\* C3: an ingest that is carried out records the document id and the chunk
\* count it returns, and a second fully_process_document call on that file,
\* not modified since, returns success with that document id and that chunk
\* count and leaves total_documents and total_chunks as they were.
C3_SecondIngestReturnsTheSame ==
    [][\A f \in Files, b \in BatchIds :
          (FpdStep /\ FullyProcess(f, b, DateOf(b), NoFault))
             => IF IngestedUnmodified(f)
                THEN /\ result'.success
                     /\ result'.doc_id = registry.documents[f].document_id
                     /\ result'.chunk_count = registry.documents[f].chunk_count
                     /\ registry'.total_documents = registry.total_documents
                     /\ registry'.total_chunks = registry.total_chunks
                ELSE result'.success /\ result'.printed = None
                        => /\ registry'.documents[f].document_id = result'.doc_id
                           /\ registry'.documents[f].chunk_count = result'.chunk_count
      ]_vars

\* A second call has skipped a document that has chunks.
C3_witness ==
    /\ result.op = "fully_process_document"
    /\ result.success
    /\ result.printed = "Skipping"
    /\ result.chunk_count > 0

C5_EmptyTextIsRejected ==
    [][\A f \in Files, b \in BatchIds, fault \in Faults :
          (/\ FpdStep
           /\ _is_text_empty(extract_document_text(raw_documents[f]))
           /\ FullyProcess(f, b, DateOf(b), fault))
             => /\ result'.success = FALSE
                /\ ~already_processed(registry', f, _calculate_md5(raw_documents[f]))
      ]_vars

\* C6: every BatchRecord's document_count is the number of DocumentRecords
\* whose batch_id is that batch's id.
C6_DocumentCountIsTheNumberOfRecords ==
    \A b \in DOMAIN registry.batches :
        registry.batches[b].document_count
            = Cardinality({f \in DOMAIN registry.documents :
                               Get(registry.documents[f], "batch_id", NoId) = b})

\* C7: delete_empty_batch(b) returns success only for an existing batch with
\* document_count 0, which is then removed, total_batches being the number
\* of the batches that remain; for a missing or non-empty batch it returns
\* (False, message) and leaves the Registry in memory and on disk as it was.
C7_DeleteEmptyBatchContract ==
    [][\A b \in BatchIds, fault \in LoaderFaults :
          (/\ calls' = calls + 1
           /\ result'.op = "delete_empty_batch"
           /\ DeleteEmptyBatch(b, fault))
             => IF b \in DOMAIN registry.batches /\ registry.batches[b].document_count = 0
                THEN result'.success
                        => /\ registry'.batches = Del(registry.batches, b)
                           /\ registry'.total_batches = Cardinality(DOMAIN registry'.batches)
                           /\ registry'.documents = registry.documents
                           /\ registry_file' = registry'
                ELSE /\ result'.success = FALSE
                     /\ result'.raised = None
                     /\ result'.message # None
                     /\ registry' = registry
                     /\ registry_file' = registry_file
      ]_vars

\* The deletion of a batch that holds a document was refused.
C7_witness ==
    /\ result.op = "delete_empty_batch"
    /\ ~result.success
    /\ result.message = "Cannot delete non-empty batch"
    /\ \E b \in DOMAIN registry.batches : registry.batches[b].document_count > 0

\* C8: every entry id the index assigns is greater than every entry id it
\* assigned before, across insertions and restarts; none is assigned twice.
C8_EntryIdsStrictlyIncrease ==
    \A i, j \in 1..Len(issued) : i < j => issued[i] < issued[j]

\* C9: with 0 <= overlap < window size, the windows of a finished split cover
\* [0, L) without a gap: the first starts at 0, each later one starts exactly
\* `overlap` characters before the end of the one before it, and the last one
\* ends at L.
C9_WindowsCoverTheText ==
    (ck.pc = "done" /\ chunk_overlap < chunk_size)
        => LET r == ck.ranges
               L == Len(ck.text)
           IN /\ L > 0 => r # <<>>
              /\ r # <<>> => r[1][1] = 0 /\ r[Len(r)][2] = L
              /\ \A i \in 1..Len(r) : r[i][1] < r[i][2]
              /\ \A i \in 2..Len(r) : r[i][1] = r[i - 1][2] - chunk_overlap
              /\ \A p \in 0..(L - 1) : \E i \in 1..Len(r) : r[i][1] <= p /\ p < r[i][2]

\* A split with a positive overlap has ended after three windows or more.
C9_witness ==
    /\ ck.pc = "done"
    /\ 0 < chunk_overlap /\ chunk_overlap < chunk_size
    /\ Len(ck.ranges) >= 3

\* C10: a splitter whose overlap is not below its window size is rejected:
\* the chunking loop runs no iteration with such a configuration.
C10_LoopNeverRunsWithOverlapAtLeastWindow ==
    chunk_overlap >= chunk_size => ck.ranges = <<>>

\* ------------------------------------------------------- claims on retrieval
\* The last call was a hybrid retrieve, and what it was called with.
HybridRetrieved == result.op = "retrieve" /\ result.use_hybrid
\* The chunk ids the two passes of that call found.
SemanticIds ==
    LET found == search(retriever, result.hits, result.top_k * 2)
    IN {found[i].chunk_id : i \in 1..Len(found)}
LexicalIds ==
    LET found == _keyword_search(chunk_files, result.listing, result.query, result.top_k * 2)
    IN {found[i].chunk_id : i \in 1..Len(found)}
\* The merged entries of that call.
Merged ==
    combined_results(retriever, chunk_files, result.listing, result.hits, result.query,
                     result.top_k)
ScoreEq(a, b) == a.kind = b.kind /\ (a.kind = "fin" => a.num * b.den = b.num * a.den)
ReturnedIds == {result.returned[i].chunk_id : i \in 1..Len(result.returned)}

\* The example: A at distance 0.1 without any term, B at distance 0.5 with
\* keyword score 1.0, C found by the lexical pass only with keyword score 0.2.
ExampleABC ==
    /\ HybridRetrieved
    /\ result.query = QueryOf(FullScoreTerms)
    /\ DOMAIN chunk_files = {SegA.chunk_id, SegB.chunk_id, SegC.chunk_id}
    /\ chunk_files[SegC.chunk_id] = SegC
    /\ Len(result.hits) = 2
    /\ result.hits[1].idx \in DOMAIN retriever.id_to_chunk
    /\ result.hits[2].idx \in DOMAIN retriever.id_to_chunk
    /\ retriever.id_to_chunk[result.hits[1].idx].chunk_id = SegA.chunk_id
    /\ retriever.id_to_chunk[result.hits[2].idx].chunk_id = SegB.chunk_id
    /\ result.hits[1].distance = Fin(1, 10)
    /\ result.hits[2].distance = Fin(5, 10)

\* C11: a hybrid retrieve(query, k) returns at most k entries, in ascending
\* order of combined score, and they are the k lowest of the union of the
\* candidates of the semantic pass and of the lexical pass: one entry per
\* candidate, min(k, number of candidates) of them, none with a score above
\* that of a candidate left out.  In the example the order is A, B, C with
\* scores 0.1, 0.35 and +inf, and k = 2 returns A and B.
C11_ReturnsTheKLowestOfTheUnion ==
    HybridRetrieved =>
        \A merged \in {Merged}, union \in {SemanticIds \cup LexicalIds} :
            LET ret == result.returned
                k == result.top_k
            IN /\ Len(ret) = Min(k, Cardinality(union))
               /\ \A i, j \in 1..Len(ret) : i < j =>
                      /\ ~ScoreLess(ret[j].score, ret[i].score)
                      /\ ret[i].chunk_id # ret[j].chunk_id
               /\ ReturnedIds \subseteq union
               /\ {merged[i].chunk_id : i \in 1..Len(merged)} = union
               /\ \A m \in 1..Len(merged) :
                      \/ \E i \in 1..Len(ret) :
                             /\ ret[i].chunk_id = merged[m].chunk_id
                             /\ ret[i].score = merged[m].combined_score
                      \/ \A i \in 1..Len(ret) :
                             ~ScoreLess(merged[m].combined_score, ret[i].score)
               /\ ExampleABC =>
                      /\ [i \in 1..Len(ret) |-> ret[i].chunk_id]
                             = PySlice(<<SegA.chunk_id, SegB.chunk_id, SegC.chunk_id>>, 0, k)
                      /\ ScoreEq(ret[1].score, Fin(1, 10))
                      /\ Len(ret) >= 2 => ScoreEq(ret[2].score, Fin(35, 100))
                      /\ Len(ret) >= 3 => ret[3].score = Inf

\* The example was retrieved with k = 2: A and B came back, C did not.
C11_witness ==
    /\ ExampleABC
    /\ result.top_k = 2
    /\ ReturnedIds = {SegA.chunk_id, SegB.chunk_id}
    /\ Cardinality(SemanticIds \cup LexicalIds) = 3

\* C12: in the list a hybrid retrieve returns, an entry found by the lexical
\* pass only never stands before an entry that has a distance from the
\* semantic pass, and none is returned while such an entry is left out,
\* however many terms of the query its text holds.
C12_LexicalOnlyRanksAfterSemantic ==
    HybridRetrieved =>
        \A semantic \in {SemanticIds} :
            LET ret == result.returned
            IN /\ \A i, j \in 1..Len(ret) :
                      i < j => ~(ret[i].chunk_id \notin semantic /\ ret[j].chunk_id \in semantic)
               /\ (\E i \in 1..Len(ret) : ret[i].chunk_id \notin semantic)
                      => semantic \subseteq ReturnedIds

\* C13: when every word of the query has at most three characters, the
\* lexical pass of a hybrid retrieve finds no candidate and retrieve returns
\* the first k results of the semantic pass, in their order, each with its
\* distance as its score.
C13_ShortWordsGiveTheSemanticResults ==
    (HybridRetrieved /\ \A word \in findall_words(result.query) : Len(word) <= 3) =>
        /\ _keyword_search(chunk_files, result.listing, result.query, result.top_k * 2) = <<>>
        /\ result.returned
               = PySlice(search(retriever, result.hits, result.top_k * 2), 0, result.top_k)

\* The last call was a hybrid retrieval, with or without the texts.
Retrieved == result.op \in {"retrieve", "retrieve_with_context"} /\ result.use_hybrid

RetrievalStep ==
    calls' = calls + 1 /\ result'.op \in {"retrieve", "retrieve_with_context"}

\* C15: a call of retrieve or of retrieve_with_context leaves the Registry in
\* memory and on disk, the full-text and segment files, the persisted index
\* and map, and the index, id->metadata map and next-id counter of both the
\* pipeline's and the retriever's indexer as they were.
C15_RetrievalChangesNoState ==
    [][RetrievalStep =>
          UNCHANGED <<registry, registry_file, chunker_registry, full_text, chunk_files,
                      index, id_to_chunk, next_id, index_file, map_file, retriever,
                      raw_documents>>]_vars

\* A retrieval with texts has returned two segments found in the index.
C15_witness ==
    /\ result.op = "retrieve_with_context"
    /\ Len(result.returned) = 2
    /\ result.returned[1].score.kind = "fin"
    /\ result.returned[1].text = chunk_files[result.returned[1].chunk_id].text
    /\ retriever.id_to_chunk # EmptyDict

\* ------------------------------------------------- claims on the pipeline, II
\* check_registry_integrity of test_atomic_processing.py, on a registry file.
check_registry_integrity(file) ==
    /\ \A f \in DOMAIN file.documents : Get(file.documents[f], "status", None) = "processed"
    /\ file.total_documents = Cardinality(DOMAIN file.documents)

C17_SuccessHasItsFiles ==
    (result.op = "fully_process_document" /\ result.success) =>
        /\ result.doc_id \in DOMAIN full_text
        /\ \A i \in 0..(result.chunk_count - 1) : <<result.doc_id, i>> \in DOMAIN chunk_files
        /\ DOMAIN registry_file = DOMAIN NewRegistry

\* A call has succeeded, without skipping, with two segments.
C17_witness ==
    /\ result.op = "fully_process_document"
    /\ result.success
    /\ result.printed = None
    /\ result.chunk_count = 2
    /\ <<result.doc_id, 1>> \in DOMAIN chunk_files

\* C18: a call of fully_process_document on a file that has a record and
\* whose content is no longer the recorded one succeeds, returns the document
\* id the record had, and leaves a record, in memory and in the Registry file,
\* with that id and with the batch id and effective date of the call.
C18_ReingestReusesIdAndReplacesBatch ==
    [][\A f \in Files, b \in BatchIds :
          (/\ FpdStep
           /\ f \in DOMAIN registry.documents
           /\ registry.documents[f].md5_hash # _calculate_md5(raw_documents[f])
           /\ FullyProcess(f, b, DateOf(b), NoFault))
             => /\ result'.success
                /\ result'.printed = None
                /\ result'.doc_id = registry.documents[f].document_id
                /\ registry'.documents[f].document_id = registry.documents[f].document_id
                /\ registry'.documents[f].batch_id = b
                /\ registry'.documents[f].effective_date = DateOf(b)
                /\ registry_file'.documents[f] = registry'.documents[f]
      ]_vars

\* A file ingested into batch 1 was changed and ingested again into batch 2:
\* batch 1 has counted it and the only record names batch 2.
C18_witness ==
    /\ result.op = "fully_process_document"
    /\ result.success
    /\ result.printed = None
    /\ 1 \in DOMAIN registry.batches
    /\ registry.batches[1].document_count = 1
    /\ Cardinality(DOMAIN registry.documents) = 1
    /\ \A f \in DOMAIN registry.documents :
           /\ registry.documents[f].batch_id = 2
           /\ registry.documents[f].effective_date = DateOf(2)
           /\ registry.documents[f].document_id = result.doc_id

\* What fully_process_document returned is a tuple of the documented shape.
FpdOutcomeIsATuple ==
    result.op = "fully_process_document" =>
        /\ {"success", "doc_id", "chunk_count", "error_msg"} \subseteq DOMAIN result
        /\ result.success \in BOOLEAN
        /\ result.success => result.error_msg = <<None>> /\ result.doc_id # NoId
        /\ ~result.success =>
               /\ result.doc_id = NoId
               /\ result.chunk_count = 0
               /\ result.error_msg # <<None>>

\* The calls a batch run has made are those for its first files, in order,
\* and a run that has returned from its loop has made them all.
RunCallsEveryFileInOrder ==
    batch_run.pc = "loop" \/ (batch_run.pc = "done" /\ batch_run.batch_id # NoId) =>
        /\ Len(batch_run.outcomes) = batch_run.i - 1
        /\ \A j \in 1..Len(batch_run.outcomes) :
               batch_run.outcomes[j][1] = batch_run.selected[j]
        /\ Len(batch_run.processed_docs) + Len(batch_run.failed_docs)
               = Len(batch_run.outcomes)
        /\ batch_run.pc = "done" => Len(batch_run.outcomes) = Len(batch_run.selected)

\* The files of document `doc_id` and the record of `filename`.
Committed(filename, doc_id) ==
    [record |-> registry_file.documents[filename],
     text |-> full_text[doc_id],
     chunks |-> [c \in {x \in DOMAIN chunk_files : x[1] = doc_id} |-> chunk_files[c]]]

\* A call of the loop, failed or not, leaves the run in its loop and leaves
\* what the earlier successful calls of the run committed as it was.
RunStepKeepsTheCommitted ==
    (batch_run.pc = "loop" /\ calls' = calls + 1) =>
        /\ batch_run'.pc = "loop"
        /\ batch_run'.i = batch_run.i + 1
        /\ \A j \in 1..Len(batch_run.processed_docs) :
               LET done == batch_run.processed_docs[j]
               IN /\ done[2] \in DOMAIN registry_file'.documents
                  /\ Committed(done[2], done[1])' = Committed(done[2], done[1])

CreateBatchReturns ==
    calls' = calls + 1 /\ result'.op = "create_batch" /\ result'.raised = None

\* C20: over the calls of create_batch and delete_empty_batch, an id that
\* create_batch returns is greater than every id it returned before and is
\* not the id of a BatchRecord of the Registry, and the call leaves every
\* BatchRecord there is as it was.
C20_BatchIdsAreNeverReused ==
    [][CreateBatchReturns =>
          /\ \A j \in 1..Len(returned_batch_ids) : returned_batch_ids[j] < result'.batch_id
          /\ result'.batch_id \notin DOMAIN registry.batches
          /\ \A b \in DOMAIN registry.batches : registry'.batches[b] = registry.batches[b]
      ]_vars

\* The document ids of the DocumentRecords of a Registry.
document_ids(reg) == {reg.documents[f].document_id : f \in DOMAIN reg.documents}

\* No two DocumentRecords of a Registry share a document id.
UniqueDocumentIds(reg) ==
    \A f, g \in DOMAIN reg.documents :
        reg.documents[f].document_id = reg.documents[g].document_id => f = g

\* From the Registry `old` to the Registry `new`, a filename keeps its id and a
\* new filename has an id greater than every id of `old`.
IdsKeptAndGrowing(old, new) ==
    \A f \in DOMAIN new.documents :
        IF f \in DOMAIN old.documents
        THEN new.documents[f].document_id = old.documents[f].document_id
        ELSE \A i \in document_ids(old) : i < new.documents[f].document_id

Searched == result.op = "search"
HitsWithEntry ==
    {i \in 1..Min(result.top_k, Len(result.hits)) : result.hits[i].idx \in DOMAIN id_to_chunk}
NthHit(P, j) == CHOOSE i \in P : Cardinality({x \in P : x < i}) = j - 1

\* C22: search(query, k) returns at most k results, in ascending order of
\* distance; the results are, in the order found, the vectors among the k
\* nearest whose id has an entry in the id->metadata map, each with the
\* chunk_id and metadata stored for its id and its distance as score; a vector
\* whose id has no entry is left out.
C22_SearchReturnsTheNearestWithTheirMetadata ==
    Searched =>
        \A kept \in {HitsWithEntry}, r \in {result.returned} :
            /\ Len(r) <= result.top_k
            /\ \A i, j \in 1..Len(r) : i < j => ~ScoreLess(r[j].score, r[i].score)
            /\ Len(r) = Cardinality(kept)
            /\ \A j \in 1..Len(r) :
                   LET hit == result.hits[NthHit(kept, j)]
                   IN /\ r[j].chunk_id = id_to_chunk[hit.idx].chunk_id
                      /\ r[j].metadata = id_to_chunk[hit.idx].metadata
                      /\ r[j].score = hit.distance

\* A search for 3 over an index of three vectors of which only the second
\* nearest has an entry in the map: that one is returned, alone.
C22_witness ==
    /\ Searched
    /\ result.top_k = 3
    /\ Len(result.hits) = 3
    /\ HitsWithEntry = {2}
    /\ Len(result.returned) = 1
    /\ result.returned[1].chunk_id = SegA.chunk_id
    /\ result.returned[1].score = result.hits[2].distance

\* The ids of the vectors of an index.
index_ids(ix) == {ix[i] : i \in 1..Len(ix)}

\* C23: the persisted index and the persisted id->metadata map do not
\* diverge: whenever both files exist, also after a save that stopped between
\* the two writes, the ids of the index file are the keys of the map file; and
\* what a VectorIndexer holds after a load has, too, the ids of its index equal
\* to the keys of its map.
C23_IndexAndMapNeverDiverge ==
    /\ (index_file # NoFile /\ map_file # NoFile) =>
           index_ids(index_file[1]) = DOMAIN map_file[1]
    /\ result.op = "__init__" => index_ids(index) = DOMAIN id_to_chunk

\* The store does not hold a loadable pair: one of the two files is missing,
\* or a file is corrupt or of a mismatching format.
UnloadableStore ==
    \/ (index_file = NoFile) # (map_file = NoFile)
    \/ index_file # NoFile /\ ~IsIntact(index_file)
    \/ map_file # NoFile /\ ~IsIntact(map_file)

\* C24: after a load over a store whose index or map is corrupt or of a
\* mismatching format, or of whose two files one is missing, the indexer holds
\* an empty index, an empty map and the next id 0, and the load has printed a
\* message that reports the loss.
C24_UnloadableStoreStartsEmptyWithAMessage ==
    (result.op = "__init__" /\ UnloadableStore) =>
        /\ index = <<>>
        /\ id_to_chunk = EmptyDict
        /\ next_id = 0
        /\ result.printed # <<>>

\* Every segment of every document the Registry records as processed has an
\* IndexEntry: an id of the index whose map entry names the segment.
HasIndexEntry(chunk_id) ==
    \E i \in 1..Len(index) :
        index[i] \in DOMAIN id_to_chunk /\ id_to_chunk[index[i]].chunk_id = chunk_id
SegmentsIndexed ==
    \A f \in DOMAIN registry.documents :
        \A k \in 0..(Get(registry.documents[f], "chunk_count", 0) - 1) :
            HasIndexEntry(<<registry.documents[f].document_id, k>>)

\* The index was loaded as empty while the Registry records every raw
\* document as processed, with its present content, and a segment of them has
\* no IndexEntry; ingestion can be run again.
IndexLostRegistryKept ==
    /\ result.op = "__init__"
    /\ index = <<>> /\ id_to_chunk = EmptyDict
    /\ get_unprocessed_documents(registry, raw_documents) = {}
    /\ \A f \in Files : already_processed(registry, f, _calculate_md5(raw_documents[f]))
    /\ ~SegmentsIndexed
    /\ batch_run.pc = "idle"
    /\ calls < MaxCalls

\* C25: after the index was lost (loaded as empty) while the Registry still
\* records the documents as processed, running ingestion again over the same
\* unmodified documents eventually restores an IndexEntry for each of their
\* segments.
C25_ReingestionRestoresTheIndex == IndexLostRegistryKept ~> SegmentsIndexed

\* A call of fully_process_document for the file returns: it failed at the
\* Registry write of step 7.
FailsAtRegistryWrite(f) ==
    /\ FpdStep
    /\ FpdFailedAt(result', {"registry_save"})
    /\ result'.error_msg[2] = f

\* C26: when the Registry write of step 7 fails after steps 4-6 succeeded, the
\* call returns failure and the Registry holds, in memory and on disk, no
\* processed record of the document with the content it was called with, so
\* that a retry of the same file is not taken for processed already.
C26_FailedRegistryWriteLeavesNoRecord ==
    [][\A f \in Files :
          FailsAtRegistryWrite(f) =>
              /\ ~result'.success
              /\ ~already_processed(registry', f, _calculate_md5(raw_documents[f]))
              /\ ~already_processed(registry_file', f, _calculate_md5(raw_documents[f]))
      ]_vars


\* The documents with a processed DocumentRecord, in the Registry the process
\* holds or in the Registry file.
processed_document_ids(reg) ==
    {reg.documents[f].document_id :
        f \in {g \in DOMAIN reg.documents : reg.documents[g].status = "processed"}}
Answered == result.op = "answer_question"

\* C27: retrieval never returns a segment whose document has no processed
\* DocumentRecord in the Registry, also after an ingest that wrote segment
\* files and index entries and failed before the Registry was written.
C27_RetrievalReturnsOnlyRecordedDocuments ==
    Answered =>
        \A i \in 1..Len(result.retrieved_chunks) :
            result.retrieved_chunks[i].metadata.document_id
                \in processed_document_ids(registry) \cup processed_document_ids(registry_file)


\* C28: a segment file is written once: after it has been written no later
\* operation changes its content or removes it, also not the re-ingestion of a
\* changed version of the same document.
C28_SegmentFilesAreWrittenOnce ==
    [][\A c \in DOMAIN chunk_files :
           /\ c \in DOMAIN chunk_files'
           /\ chunk_files'[c] = chunk_files[c]
      ]_vars


\* The complete versions of a file a reader may see while a save runs: the
\* one the save began to replace and the one it writes; the file as it is
\* when no save writes it.
RegistryVersions ==
    IF save_run.pc \in {"registry_open", "registry_partial"}
    THEN {save_run.old, registry} ELSE {registry_file}
IndexFileVersions ==
    IF save_run.pc \in {"index_open", "index_partial"}
    THEN {save_run.old, FileOf(index)} ELSE {index_file}
MapFileVersions ==
    IF save_run.pc \in {"map_open", "map_partial"}
    THEN {save_run.old, FileOf(id_to_chunk)} ELSE {map_file}

\* C29: the Registry file and the index files are replaced atomically: a
\* reader that runs while they are saved sees of each file the complete old
\* version or the complete new version, never a partially written file.
C29_ReaderSeesACompleteVersion ==
    [][reader' # reader =>
           /\ reader'.registry_file \in RegistryVersions
           /\ reader'.index_file \in IndexFileVersions
           /\ reader'.map_file \in MapFileVersions
      ]_vars


\* The calls of add_embeddings_bulk the specifications make, and those of
\* them that meet an error: vectors and metadata of different lengths, or a
\* failure while the index or the map is persisted.
BulkCalls == {<<0, 0>>, <<1, 2>>, <<2, 2>>} \X IndexerFaults
BulkStep == calls' = calls + 1 /\ result'.op = "add_embeddings_bulk"
BulkCallWithError(c) == c[1][1] # c[1][2] \/ c[2].kind # "none"

\* C30: an error in add_embeddings_bulk (a length mismatch between vectors
\* and metadata, a failure while inserting or persisting) reaches the caller
\* as a raised error and is never turned into a normal return value.
C30_BulkInsertErrorsAreRaised ==
    [][\A c \in BulkCalls :
           (/\ BulkStep
            /\ BulkCallWithError(c)
            /\ AddEmbeddingsBulk(c[1][1], 1, c[1][2], c[2]))
               => result'.raised # None
      ]_vars


\* C31: in every execution of fully_process_document no durable write happens
\* before extraction, chunking and every embedding have succeeded, and the
\* durable writes come in the order full-text file, segment files, index file
\* and id-map file, Registry file: a write has happened only if all the writes
\* before it were completed.
C31_DurableWritesComeInOrder ==
    [][\A f \in Files, b \in BatchIds, fault \in Faults :
          (/\ FpdStep
           /\ fault.kind = (IF result'.success THEN "none" ELSE result'.error_msg[3])
           /\ FullyProcess(f, b, DateOf(b), fault))
             => \A doc_id \in {assign_document_id(registry, f)} :
                \A chunks \in {fpd_chunks_of(registry, raw_documents[f], f, b, DateOf(b),
                                             chunk_size, chunk_overlap)} :
                LET TextDone ==
                        /\ doc_id \in DOMAIN full_text'
                        /\ full_text'[doc_id] = extract_document_text(raw_documents[f])
                    ChunksDone ==
                        \A i \in 1..Len(chunks) :
                            /\ chunks[i].chunk_id \in DOMAIN chunk_files'
                            /\ chunk_files'[chunks[i].chunk_id] = chunks[i]
                    IndexDone ==
                        chunks # <<>> => /\ index_file' = FileOf(index')
                                         /\ map_file' = FileOf(id_to_chunk')
                IN /\ fault.kind \in {"hash", "extract", "embed"}
                        => UNCHANGED <<full_text, chunk_files, index_file, map_file,
                                       registry_file>>
                   /\ chunk_files' # chunk_files => TextDone
                   /\ index_file' # index_file => TextDone /\ ChunksDone
                   /\ map_file' # map_file
                        => TextDone /\ ChunksDone /\ index_file' = FileOf(index')
                   /\ registry_file' # registry_file
                        => TextDone /\ ChunksDone /\ IndexDone /\ result'.success
      ]_vars

\* The call failed at the id-map file: the full text, the segment files and
\* the index file were written, the map file and the Registry file were not.
C31_witness ==
    /\ FpdFailedAt(result, {"save_map"})
    /\ full_text # EmptyDict
    /\ chunk_files # EmptyDict
    /\ index_file # NoFile
    /\ map_file = NoFile
    /\ registry_file.documents = EmptyDict


\* Both instances have ingested their document and returned success.
BothIngested == \A p \in Instances : ingest[p].pc = "done" /\ ingest[p].success
SharedDocumentId == ingest[1].doc_id = ingest[2].doc_id
SharedEntryIds ==
    \E i \in 1..Len(ingest[1].entry_ids), j \in 1..Len(ingest[2].entry_ids) :
        ingest[1].entry_ids[i] = ingest[2].entry_ids[j]
RecordMissing == \E p \in Instances : ingest[p].filename \notin DOMAIN registry_file.documents

\* C32: concurrent ingestion is unsafe without a lock from outside: when two
\* instances that loaded the same Registry and index each ingest a different
\* new document, the two documents share a document id or entry ids, or the
\* record of one of them is missing from the Registry file.  This holds after
\* every interleaving of the two calls, so an interleaving with it exists.
C32_TwoInstancesCollide ==
    BothIngested => SharedDocumentId \/ SharedEntryIds \/ RecordMissing

\* The two instances have ingested different documents, both calls returned
\* success, and the documents share their id and their entry ids, and the
\* record of one of them is missing from the Registry file.
C32_witness ==
    /\ BothIngested
    /\ SharedDocumentId
    /\ SharedEntryIds
    /\ RecordMissing
    /\ ingest[1].filename # ingest[2].filename


\* The distances of the semantic pass's hits on a chunk, and the keyword score
\* of a chunk: the number of the query's terms of more than 3 characters its
\* text holds over the length of its id, when it is among the lexical pass's
\* candidates, and 0 otherwise.
SemanticDistances(chunk_id) ==
    LET found == PySlice(result.hits, 0, result.top_k * 2)
    IN {found[i].distance :
           i \in {j \in 1..Len(found) :
                     /\ found[j].idx \in DOMAIN retriever.id_to_chunk
                     /\ retriever.id_to_chunk[found[j].idx].chunk_id = chunk_id}}
KeywordScore(chunk_id) ==
    IF chunk_id \in LexicalIds
    THEN Fin(Cardinality({t \in findall_words(lower(result.query)) :
                             /\ Len(t) > 3
                             /\ Contains(t, lower(chunk_files[chunk_id].text))}),
             chunk_id_len(chunk_id))
    ELSE Fin(0, 1)
\* semantic_score * (1 - 0.3 * keyword_score)
CombinedScore(semantic_score, keyword_score) ==
    ScoreTimes(semantic_score,
               Fin(10 * keyword_score.den - 3 * keyword_score.num, 10 * keyword_score.den))

\* C33: for every merged entry of a hybrid retrieval the combined score is
\* semantic_score * (1 - 0.3 * keyword_score), with semantic_score the index
\* distance of a hit of the semantic pass on the segment and +infinity when
\* there is none, and keyword_score the number of distinct query terms longer
\* than 3 found in the segment's text over the length of the segment id when
\* the segment is among the top 2k lexical candidates and 0 otherwise.
C33_CombinedScoreFormula ==
    HybridRetrieved =>
        \A merged \in {Merged} :
            \A m \in 1..Len(merged) :
                LET e == merged[m]
                    ds == SemanticDistances(e.chunk_id)
                    kw == KeywordScore(e.chunk_id)
                IN /\ ScoreEq(e.keyword_score, kw)
                   /\ IF ds = {} THEN e.semantic_score = Inf
                      ELSE e.semantic_score \in ds
                   /\ ScoreEq(e.combined_score, CombinedScore(e.semantic_score, kw))

\* A hybrid retrieval merged an entry that both passes found, at a distance
\* above 0 and with a keyword score above 0, and an entry of the lexical pass
\* alone.
C33_witness ==
    /\ HybridRetrieved
    /\ \E merged \in {Merged} :
           \E m, n \in 1..Len(merged) :
               /\ merged[m].semantic_score.kind = "fin"
               /\ merged[m].semantic_score.num > 0
               /\ merged[m].keyword_score.num > 0
               /\ ScoreLess(merged[m].combined_score, merged[m].semantic_score)
               /\ merged[n].semantic_score = Inf
               /\ merged[n].keyword_score.num > 0


\* The windows a split has made so far.
WindowLengths == [i \in 1..Len(ck.st.chunks) |-> Len(ck.st.chunks[i].text)]

\* C34: with 0 <= overlap < window_size the split of every text terminates
\* and yields a finite sequence of windows, each of length window_size except
\* possibly the last one, which is cut to the remaining text; the empty text
\* yields no window.
C34_SplitTerminatesWithFullWindows ==
    /\ [](chunk_overlap < chunk_size =>
             /\ Len(ck.st.chunks) <= Len(ck.text)
             /\ ck.pc = "done" =>
                    LET w == WindowLengths
                        r == ck.ranges
                    IN /\ ck.text = <<>> => w = <<>>
                       /\ \A i \in 1..(Len(w) - 1) : w[i] = chunk_size
                       /\ w # <<>> =>
                              /\ 0 < w[Len(w)] /\ w[Len(w)] <= chunk_size
                              /\ r[Len(r)][2] = Len(ck.text)
                              /\ ck.st.chunks[Len(w)].text
                                     = PySlice(ck.text, r[Len(r)][1], Len(ck.text)))
    /\ (ck.pc = "loop" /\ chunk_overlap < chunk_size) ~> (ck.pc = "done")

\* A split with a positive overlap has returned two windows or more, the
\* last of them shorter than the window size.
C34_witness ==
    /\ ck.pc = "done"
    /\ 0 < chunk_overlap /\ chunk_overlap < chunk_size
    /\ Len(ck.st.chunks) >= 2
    /\ Len(ck.st.chunks[Len(ck.st.chunks)].text) < chunk_size
    /\ Len(ck.st.chunks[1].text) = chunk_size


\* The file has a DocumentRecord with status processed and the hash of its
\* present content.
ProcessedAndUnchanged(f) ==
    /\ f \in DOMAIN registry.documents
    /\ registry.documents[f].status = "processed"
    /\ registry.documents[f].md5_hash = _calculate_md5(raw_documents[f])

\* C35: a fully_process_document call on an unchanged, already processed
\* document short-circuits and changes nothing: no file is written, no index
\* entry is added, next_id is not advanced, and the DocumentRecord (its
\* batch_id and effective_date) and every batch's document_count stay as they
\* were, whatever batch and effective date the call names.
C35_SkipChangesNothing ==
    [][\A f \in Files, b \in BatchIds :
          (/\ FpdStep
           /\ result'.success
           /\ ProcessedAndUnchanged(f)
           /\ FullyProcess(f, b, DateOf(b), NoFault))
             => /\ result'.printed = "Skipping"
                /\ result'.doc_id = registry.documents[f].document_id
                /\ UNCHANGED <<registry_vars, file_vars, index_vars>>
      ]_vars

\* A call has skipped a document that has chunks and index entries and was
\* ingested into the first batch.
C35_witness ==
    /\ result.op = "fully_process_document"
    /\ result.printed = "Skipping"
    /\ result.chunk_count > 0
    /\ index # <<>>
    /\ \E f \in Files :
           /\ ProcessedAndUnchanged(f)
           /\ registry.documents[f].document_id = result.doc_id
           /\ registry.documents[f].batch_id = 1


\* total_chunks of a registry is the sum of the chunk counts of its records.
TotalChunksIsTheSum(reg) == reg.total_chunks = total_chunk_count(reg.documents)

\* C36: after any sequence of ingestion operations (fully_process_document,
\* DocumentLoader.process_document, TextChunker.process_document) the
\* Registry's total_chunks equals the sum of chunk_count over all
\* DocumentRecords, in the Registry the pipeline holds and in the Registry file.
C36_TotalChunksIsTheSumOfChunkCounts ==
    TotalChunksIsTheSum(registry) /\ TotalChunksIsTheSum(registry_file)



\* The entries of the map m that belong to the document doc_id.
EntriesOf(m, doc_id) == {k \in DOMAIN m : m[k].metadata.document_id = doc_id}
\* The semantic pass of the CLI's retriever can return the entry k: the
\* index the retriever searches holds its vector and the map it reads holds
\* its metadata.
RetrieverCanReturn(R, k) ==
    /\ \E i \in 1..Len(R.index) : R.index[i] = k
    /\ k \in DOMAIN R.id_to_chunk

\* C37: when fully_process_document returns success, every index entry of
\* the document it ingested can be returned by the semantic pass of the CLI's
\* retriever, in the same process and without a restart.
C37_RetrieverSearchesTheUpdatedIndex ==
    [][FpdStep /\ result'.success =>
           \A k \in EntriesOf(id_to_chunk', result'.doc_id) : RetrieverCanReturn(retriever', k)
      ]_vars



\* C38: in the memory of a VectorIndexer, after any sequence of loads and
\* insertions, also insertions whose save fails, the keys of the map are
\* exactly 0 .. next_id - 1 and the index holds as many vectors as the map
\* holds entries.
C38_MapKeysAreTheIssuedIds ==
    /\ DOMAIN id_to_chunk = 0..(next_id - 1)
    /\ Len(index) = Cardinality(DOMAIN id_to_chunk)



\* Every DocumentRecord of the Registry reg names a BatchRecord of reg.
RecordsHaveTheirBatch(reg) ==
    \A f \in DOMAIN reg.documents : reg.documents[f].batch_id \in DOMAIN reg.batches

\* C39: over the calls of create_batch, of fully_process_document into
\* batches of the Registry and of delete_empty_batch, every DocumentRecord
\* names a BatchRecord that the Registry holds, in memory and in the Registry
\* file: delete_empty_batch removes no batch a record names.
C39_ReferencedBatchesAreKept ==
    RecordsHaveTheirBatch(registry) /\ RecordsHaveTheirBatch(registry_file)



\* The two loops take the same step from the locals st, for the document id d.
SameIteration(d, st) ==
    chunk_text_body(ck.text, ChunkMetadata, d, chunk_size, chunk_overlap, st)
        = fpd_chunk_body(ck.text, ChunkMetadata, d, chunk_size, chunk_overlap, st)

\* C40: for every text, document id, window size and overlap the loop inlined
\* in fully_process_document and TextChunker._chunk_text make the same chunks
\* (ids, texts, section labels, ordinals): from the locals either loop has
\* reached both take the same iteration, and where the loops end both return
\* the chunks the loop that ran has made.
C40_InlinedLoopEqualsChunkText ==
    /\ (ck.pc = "loop" /\ ck.st.start < Len(ck.text)) =>
           \A d \in DocIds : SameIteration(d, ck.st)
    /\ (ck.pc = "done" /\ chunk_overlap < chunk_size) =>
           /\ _chunk_text(ck.text, ChunkMetadata, 1, chunk_size, chunk_overlap) = ck.st.chunks
           /\ fpd_chunks(ck.text, ChunkMetadata, 1, chunk_size, chunk_overlap) = ck.st.chunks

\* The inlined loop has returned two chunks or more that overlap, one of
\* them with a section label it found in its text.
C40_witness ==
    /\ ck.pc = "done"
    /\ ck.loop = "fully_process_document"
    /\ 0 < chunk_overlap /\ chunk_overlap < chunk_size
    /\ Len(ck.st.chunks) >= 2
    /\ \E i \in 1..Len(ck.st.chunks) : ck.st.chunks[i].metadata.section # <<"Unknown section">>
    /\ ck.st.chunks = _chunk_text(ck.text, ChunkMetadata, 1, chunk_size, chunk_overlap)

====
